---- MODULE Spec2Model ----
(***************************************************************************)
(* Verification model of zod-form-data: the value flattener, the value and *)
(* error unflatteners, the array helpers of useZodForm and parseFormData.  *)
(*                                                                         *)
(* Strings that the code inspects character by character (flat-map keys,   *)
(* paths, field names) are sequences of one-character strings, so that     *)
(* split("."), startsWith, the \d+ regular expressions and String.sort are *)
(* computed as the code computes them.  A JavaScript value is a record     *)
(*   [k |-> kind, v |-> payload, e |-> elements, p |-> properties]         *)
(* where e is the dense index part of an array and p the insertion-ordered *)
(* own properties of an object (or the named properties of an array).      *)
(***************************************************************************)
EXTENDS Integers, Sequences, FiniteSets, TLC

(***************************************************************************)
(* Characters and strings                                                  *)
(***************************************************************************)
Digits == {"0", "1", "2", "3", "4", "5", "6", "7", "8", "9"}

DigitVal(c) ==
  CASE c = "0" -> 0 [] c = "1" -> 1 [] c = "2" -> 2 [] c = "3" -> 3
    [] c = "4" -> 4 [] c = "5" -> 5 [] c = "6" -> 6 [] c = "7" -> 7
    [] c = "8" -> 8 [] OTHER -> 9

DigitChar(n) ==
  CASE n = 0 -> "0" [] n = 1 -> "1" [] n = 2 -> "2" [] n = 3 -> "3"
    [] n = 4 -> "4" [] n = 5 -> "5" [] n = 6 -> "6" [] n = 7 -> "7"
    [] n = 8 -> "8" [] OTHER -> "9"

IsDigits(s) == Len(s) > 0 /\ \A i \in 1..Len(s) : s[i] \in Digits

RECURSIVE ParseNat(_)
ParseNat(s) ==
  IF Len(s) = 0 THEN 0
  ELSE 10 * ParseNat(SubSeq(s, 1, Len(s) - 1)) + DigitVal(s[Len(s)])

RECURSIVE NatToStr(_)
NatToStr(n) ==
  IF n < 10 THEN <<DigitChar(n)>>
  ELSE NatToStr(n \div 10) \o <<DigitChar(n % 10)>>

StartsWith(s, pre) ==
  Len(pre) <= Len(s) /\ SubSeq(s, 1, Len(pre)) = pre

Dot == <<".">>

\* `${a}.${b}`
Dotted(a, b) == a \o Dot \o b

\* prefix ? `${prefix}.${key}` : key
WithPrefix(prefix, key) == IF prefix = <<>> THEN key ELSE Dotted(prefix, key)

RECURSIVE Split(_)
Split(s) ==
  IF \A i \in 1..Len(s) : s[i] # "."
  THEN <<s>>
  ELSE LET i == CHOOSE j \in 1..Len(s) :
                   s[j] = "." /\ \A h \in 1..(j - 1) : s[h] # "."
       IN  <<SubSeq(s, 1, i - 1)>> \o Split(SubSeq(s, i + 1, Len(s)))

RECURSIVE JoinDots(_)
JoinDots(parts) ==
  IF Len(parts) = 0 THEN <<>>
  ELSE IF Len(parts) = 1 THEN parts[1]
  ELSE Dotted(parts[1], JoinDots(Tail(parts)))

\* !Number.isNaN(Number(s)) for a dot-free segment over the alphabet of the
\* model (letters other than those of hex/octal/binary/exponent/Infinity
\* notation, digits, "-", "#", "*"): the empty string converts to 0, an
\* optionally signed digit run converts to its value, anything else is NaN.
NumberNotNaN(s) ==
  \/ s = <<>>
  \/ IsDigits(s)
  \/ Len(s) > 1 /\ s[1] = "-" /\ IsDigits(Tail(s))

\* Number(s) is a non-negative integer: s addresses an array element.
NumberIsIndex(s) == s = <<>> \/ IsDigits(s)

\* String(Number(s)): the property name that data[Number(s)] addresses.
NumberKey(s) ==
  IF NumberIsIndex(s) THEN NatToStr(ParseNat(s))
  ELSE IF NumberNotNaN(s)
       THEN (IF ParseNat(Tail(s)) = 0 THEN <<"0">>
             ELSE <<"-">> \o NatToStr(ParseNat(Tail(s))))
       ELSE <<"N", "a", "N">>

\* A canonical array index: such own keys are enumerated first, ascending.
IsIndexKey(s) == IsDigits(s) /\ (Len(s) = 1 \/ s[1] # "0")

(***************************************************************************)
(* JavaScript values                                                       *)
(***************************************************************************)
Node(kind, payload, elems, props) ==
  [k |-> kind, v |-> payload, e |-> elems, p |-> props]

Undef == Node("undefined", "", <<>>, <<>>)
Null == Node("null", "", <<>>, <<>>)
Hole == Node("hole", "", <<>>, <<>>)
Str(s) == Node("string", s, <<>>, <<>>)
Num(s) == Node("number", s, <<>>, <<>>)
Bool(s) == Node("boolean", s, <<>>, <<>>)
Obj(props) == Node("object", "", <<>>, props)
Arr(elems) == Node("array", "", elems, <<>>)
Entry(name, val) == [n |-> name, x |-> val]
EmptyObj == Obj(<<>>)
EmptyArr == Arr(<<>>)

IsArray(d) == d.k = "array"
\* typeof d === "object" && d !== null
IsObjectLike(d) == d.k \in {"object", "array", "date", "blob", "map", "set"}
IsPlainObject(d) == IsObjectLike(d) /\ ~IsArray(d)
IsUndefined(d) == d.k \in {"undefined", "hole"}

Truthy(d) ==
  CASE d.k \in {"undefined", "hole", "null"} -> FALSE
    [] d.k = "string" -> d.v # ""
    [] d.k = "number" -> d.v \notin {"0", "NaN"}
    [] d.k = "boolean" -> d.v = "true"
    [] OTHER -> TRUE

HasProp(d, name) == \E i \in 1..Len(d.p) : d.p[i].n = name

PropIndex(d, name) == CHOOSE i \in 1..Len(d.p) : d.p[i].n = name

\* Position at which a new own key lands in the enumeration order.
InsertPos(props, name) ==
  IF IsIndexKey(name)
  THEN LET later == {i \in 1..Len(props) :
                       ~IsIndexKey(props[i].n)
                       \/ ParseNat(props[i].n) > ParseNat(name)}
       IN  IF later = {} THEN Len(props) + 1
           ELSE CHOOSE i \in later : \A j \in later : i <= j
  ELSE Len(props) + 1

InsertAt(s, i, x) == SubSeq(s, 1, i - 1) \o <<x>> \o SubSeq(s, i, Len(s))

RemoveAt(s, i) == SubSeq(s, 1, i - 1) \o SubSeq(s, i + 1, Len(s))

\* d[name] on an object or an array (name is a property name).
Get(d, name) ==
  IF IsArray(d) /\ IsIndexKey(name)
  THEN (IF ParseNat(name) < Len(d.e) /\ d.e[ParseNat(name) + 1].k # "hole"
        THEN d.e[ParseNat(name) + 1] ELSE Undef)
  ELSE IF d.k # "map" /\ HasProp(d, name) THEN d.p[PropIndex(d, name)].x
  ELSE Undef

RECURSIVE Holes(_)
Holes(n) == IF n <= 0 THEN <<>> ELSE <<Hole>> \o Holes(n - 1)

\* d[name] = val on an object or an array.
Set(d, name, val) ==
  IF IsArray(d) /\ IsIndexKey(name)
  THEN LET i == ParseNat(name)
       IN  IF i < Len(d.e)
           THEN [d EXCEPT !.e[i + 1] = val]
           ELSE [d EXCEPT !.e = d.e \o Holes(i - Len(d.e)) \o <<val>>]
  ELSE IF HasProp(d, name)
       THEN [d EXCEPT !.p[PropIndex(d, name)].x = val]
       ELSE [d EXCEPT !.p = InsertAt(d.p, InsertPos(d.p, name), Entry(name, val))]

\* delete d[name] on an object.
Delete(d, name) ==
  IF HasProp(d, name) THEN [d EXCEPT !.p = RemoveAt(d.p, PropIndex(d, name))]
  ELSE d

Push(d, val) == [d EXCEPT !.e = Append(d.e, val)]

Keys(d) == [i \in 1..Len(d.p) |-> d.p[i].n]

KeySet(d) == {d.p[i].n : i \in 1..Len(d.p)}

(***************************************************************************)
(* unflattenZodFormData / unflattenZodFormErrors                           *)
(***************************************************************************)
\* The outcome of a call: the container after the call, or a TypeError.
Ok(d) == [threw |-> FALSE, d |-> d]
Threw == [threw |-> TRUE, d |-> Undef]

\* The container with the outcome of the nested call stored back at name.
Into(data, name, r) ==
  IF r.threw THEN Threw ELSE Ok(Set(data, name, r.d))

KeyAt(keys, level) == IF level <= Len(keys) THEN keys[level] ELSE <<>>

RECURSIVE nestAtIndex(_, _, _, _)
\* nest as it would be if the terminal segment of an array entry were stored
\* at its numeric index instead of being pushed.
nestAtIndex(data, keys, level, value) ==
  LET key == keys[level]
      isLastKey == level + 1 > Len(keys)
      nextKey == KeyAt(keys, level + 1)
      keyIsArray == NumberNotNaN(nextKey)
      idx == NumberKey(key)
  IN
  IF ~IsObjectLike(data)
  THEN Threw
  ELSE IF isLastKey
  THEN (IF IsArray(data) THEN Ok(Set(data, idx, value))
        ELSE Ok(Set(data, key, value)))
  ELSE IF keyIsArray
  THEN (IF IsArray(data)
        THEN Ok(data)
        ELSE IF Truthy(Get(data, key))
             THEN Into(data, key,
                       nestAtIndex(Get(data, key), keys, level + 1, value))
             ELSE Into(data, key, nestAtIndex(EmptyArr, keys, level + 1, value)))
  ELSE IF IsArray(data)
  THEN (IF ~IsUndefined(Get(data, idx))
        THEN Into(data, idx, nestAtIndex(Get(data, idx), keys, level + 1, value))
        ELSE Into(data, idx, nestAtIndex(EmptyObj, keys, level + 1, value)))
  ELSE IF ~Truthy(Get(data, key))
  THEN Into(data, key, nestAtIndex(EmptyObj, keys, level + 1, value))
  ELSE Into(data, key, nestAtIndex(Get(data, key), keys, level + 1, value))

RECURSIVE nest(_, _, _, _)
nest(data, keys, level, value) ==
  LET key == keys[level]
      isLastKey == level + 1 > Len(keys)
      nextKey == KeyAt(keys, level + 1)
      keyIsArray == NumberNotNaN(nextKey)
      idx == NumberKey(key)
  IN
  IF ~IsObjectLike(data)
  THEN Threw   \* a property is created on, or read past, a primitive
  ELSE IF isLastKey
  THEN (IF IsArray(data) THEN Ok(Push(data, value))
        ELSE Ok(Set(data, key, value)))
  ELSE IF keyIsArray
  THEN (IF IsArray(data)
        THEN Ok(data)   \* "ARRAY WITHIN ARRAY": nothing is stored
        ELSE IF Truthy(Get(data, key))
             THEN Into(data, key, nest(Get(data, key), keys, level + 1, value))
             ELSE Into(data, key, nest(EmptyArr, keys, level + 1, value)))
  ELSE IF IsArray(data)
  THEN (IF ~IsUndefined(Get(data, idx))
        THEN Into(data, idx, nest(Get(data, idx), keys, level + 1, value))
        ELSE Into(data, idx, nest(EmptyObj, keys, level + 1, value)))
  ELSE IF ~Truthy(Get(data, key))
  THEN Into(data, key, nest(EmptyObj, keys, level + 1, value))
  ELSE Into(data, key, nest(Get(data, key), keys, level + 1, value))

RECURSIVE nestAll(_, _, _, _)
nestAll(result, data, i, root) ==
  IF result.threw \/ i > Len(data.p) THEN result
  ELSE LET key == data.p[i].n
           take == root = <<>> \/ StartsWith(key, root \o Dot)
       IN  nestAll(IF take THEN nest(result.d, Split(key), 1, data.p[i].x)
                   ELSE result,
                   data, i + 1, root)

\* unflattenZodFormData(data, root); root = <<>> when no root is passed.
unflattenZodFormData(data, root) ==
  LET r == nestAll(Ok(EmptyObj), data, 1, root)
  IN  IF r.threw THEN Threw
      ELSE IF root # <<>> THEN Ok(Get(r.d, root)) ELSE r

\* The value a tree holds at a path of segments, undefined when it has none.
RECURSIVE GetPath(_, _)
GetPath(data, keys) ==
  IF keys = <<>> THEN data
  ELSE IF ~IsObjectLike(data) THEN Undef
  ELSE GetPath(Get(data, Head(keys)), Tail(keys))

\* Where a call of nest stores its value: the property names from the
\* container down to the stored value, when the value is stored at all.
NotStored == [stored |-> FALSE, loc |-> <<>>]
StoredAt(loc) == [stored |-> TRUE, loc |-> loc]
Below(name, w) == IF w.stored THEN StoredAt(<<name>> \o w.loc) ELSE w

RECURSIVE storedAt(_, _, _)
storedAt(data, keys, level) ==
  LET key == keys[level]
      isLastKey == level + 1 > Len(keys)
      keyIsArray == NumberNotNaN(KeyAt(keys, level + 1))
      idx == NumberKey(key)
  IN
  IF ~IsObjectLike(data) THEN NotStored
  ELSE IF isLastKey
  THEN (IF IsArray(data) THEN StoredAt(<<NatToStr(Len(data.e))>>)
        ELSE StoredAt(<<key>>))
  ELSE IF keyIsArray
  THEN (IF IsArray(data) THEN NotStored
        ELSE Below(key, storedAt(IF Truthy(Get(data, key)) THEN Get(data, key)
                                 ELSE EmptyArr,
                                 keys, level + 1)))
  ELSE IF IsArray(data)
  THEN Below(idx, storedAt(IF ~IsUndefined(Get(data, idx)) THEN Get(data, idx)
                           ELSE EmptyObj,
                           keys, level + 1))
  ELSE Below(key, storedAt(IF Truthy(Get(data, key)) THEN Get(data, key)
                           ELSE EmptyObj,
                           keys, level + 1))

IsPrefix(a, b) == Len(a) <= Len(b) /\ SubSeq(b, 1, Len(a)) = a

\* The value objects of the flat map are stored in the result by reference
\* (data[key] = value): while the result holds one, what nest writes below
\* it is written into the caller's object. `held` is the content of each
\* entry's value so far, `locs` where the result holds it.
held0(data) ==
  [r |-> Ok(EmptyObj),
   held |-> [j \in 1..Len(data.p) |-> data.p[j].x],
   locs |-> [j \in 1..Len(data.p) |-> NotStored]]

\* One call nest(result, keys, 0, value) for entry i, stored at w, with the
\* outcome next.
heldStep(st, i, val, w, next) ==
  IF next.threw THEN [st EXCEPT !.r = Threw]
  ELSE [r |-> next,
        held |-> [j \in 1..Len(st.held) |->
                    IF j # i /\ st.locs[j].stored
                       /\ ~(w.stored /\ IsPrefix(w.loc, st.locs[j].loc))
                    THEN GetPath(next.d, st.locs[j].loc)
                    ELSE st.held[j]],
        locs |-> [j \in 1..Len(st.locs) |->
                    IF j = i
                    THEN (IF IsObjectLike(val) THEN w ELSE NotStored)
                    ELSE IF w.stored /\ IsPrefix(w.loc, st.locs[j].loc)
                    THEN NotStored
                    ELSE st.locs[j]]]

RECURSIVE heldAll(_, _, _, _)
heldAll(st, data, i, root) ==
  IF st.r.threw \/ i > Len(data.p) THEN st
  ELSE heldAll(
         IF root = <<>> \/ StartsWith(data.p[i].n, root \o Dot)
         THEN heldStep(st, i, data.p[i].x,
                       storedAt(st.r.d, Split(data.p[i].n), 1),
                       nest(st.r.d, Split(data.p[i].n), 1, data.p[i].x))
         ELSE st,
         data, i + 1, root)

\* The caller's flat map once unflattenZodFormData(data, root) has returned.
dataAfterUnflatten(data, root) ==
  Obj([j \in 1..Len(data.p) |->
         Entry(data.p[j].n, heldAll(held0(data), data, 1, root).held[j])])

RECURSIVE nestErrors(_, _, _, _)
\* nest of unflattenZodFormErrors: the same walk over message strings.
nestErrors(errors, keys, level, value) ==
  LET key == keys[level]
      isLastKey == level + 1 > Len(keys)
      nextKey == KeyAt(keys, level + 1)
      keyIsArray == NumberNotNaN(nextKey)
      idx == NumberKey(key)
  IN
  IF ~IsObjectLike(errors)
  THEN Threw
  ELSE IF isLastKey
  THEN (IF IsArray(errors) THEN Ok(Push(errors, value))
        ELSE Ok(Set(errors, key, value)))
  ELSE IF keyIsArray
  THEN (IF IsArray(errors)
        THEN Ok(errors)
        ELSE IF Truthy(Get(errors, key))
             THEN Into(errors, key,
                       nestErrors(Get(errors, key), keys, level + 1, value))
             ELSE Into(errors, key, nestErrors(EmptyArr, keys, level + 1, value)))
  ELSE IF IsArray(errors)
  THEN (IF ~IsUndefined(Get(errors, idx))
        THEN Into(errors, idx,
                  nestErrors(Get(errors, idx), keys, level + 1, value))
        ELSE Into(errors, idx, nestErrors(EmptyObj, keys, level + 1, value)))
  ELSE IF ~Truthy(Get(errors, key))
  THEN Into(errors, key, nestErrors(EmptyObj, keys, level + 1, value))
  ELSE Into(errors, key, nestErrors(Get(errors, key), keys, level + 1, value))

RECURSIVE nestAllErrors(_, _, _, _)
nestAllErrors(result, errors, i, root) ==
  IF result.threw \/ i > Len(errors.p) THEN result
  ELSE LET key == errors.p[i].n
           take == root = <<>> \/ StartsWith(key, root \o Dot)
       IN  nestAllErrors(
             IF take THEN nestErrors(result.d, Split(key), 1, errors.p[i].x)
             ELSE result,
             errors, i + 1, root)

\* unflattenZodFormErrors(errors, root); root = <<>> when no root is passed.
unflattenZodFormErrors(errors, root) ==
  LET r == nestAllErrors(Ok(EmptyObj), errors, 1, root)
  IN  IF r.threw THEN Threw
      ELSE IF root # <<>> THEN Ok(Get(r.d, root)) ELSE r

(***************************************************************************)
(* Schemas                                                                 *)
(***************************************************************************)
\* A schema node: its def.type tag (a discriminated union carries its own
\* tag since it is recognised by class before the switch), the shape of an
\* object, the child schemas (array element, tuple items, union options,
\* wrapper inner type, record/map/set value type), the discriminator, the
\* values of a literal and the default of a ZodDefault.
Schema(type, shape, items, discriminator, values, defaultValue) ==
  [type |-> type, shape |-> shape, items |-> items,
   discriminator |-> discriminator, values |-> values,
   defaultValue |-> defaultValue]

Leaf(type) == Schema(type, <<>>, <<>>, <<>>, <<>>, Undef)
Wrap(type, inner) == Schema(type, <<>>, <<inner>>, <<>>, <<>>, Undef)
Field(name, schema) == [n |-> name, s |-> schema]

ZString == Leaf("string")
ZNumber == Leaf("number")
ZBoolean == Leaf("boolean")
ZDate == Leaf("date")
ZObject(shape) == Schema("object", shape, <<>>, <<>>, <<>>, Undef)
ZArray(element) == Wrap("array", element)
ZTuple(items) == Schema("tuple", <<>>, items, <<>>, <<>>, Undef)
ZRecord(valueType) == Wrap("record", valueType)
ZMap(valueType) == Wrap("map", valueType)
ZSet(valueType) == Wrap("set", valueType)
ZOptional(inner) == Wrap("optional", inner)
ZNullable(inner) == Wrap("nullable", inner)
ZLazy(inner) == Wrap("lazy", inner)
\* z.lazy(() => commentSchema), whose getter returns the schema being defined.
ZLazySelf(def) == Schema("lazy", <<>>, <<>>, <<>>, def, Undef)
ZDefault(inner, dv) == Schema("default", <<>>, <<inner>>, <<>>, <<>>, dv)
ZLiteral(values) == Schema("literal", <<>>, <<>>, <<>>, values, Undef)
ZUnion(options) == Schema("union", <<>>, options, <<>>, <<>>, Undef)
ZDiscriminatedUnion(discriminator, options) ==
  Schema("discriminatedUnion", <<>>, options, discriminator, <<>>, Undef)

RECURSIVE unwrapSchema(_)
\* unwrapSchema(schema): the schema under optional, nullable and default.
unwrapSchema(schema) ==
  IF schema.type \in {"optional", "nullable", "default"}
  THEN unwrapSchema(schema.items[1])
  ELSE schema

HasField(schema, name) ==
  \E i \in 1..Len(schema.shape) : schema.shape[i].n = name

FieldSchema(schema, name) ==
  schema.shape[CHOOSE i \in 1..Len(schema.shape) : schema.shape[i].n = name].s

(***************************************************************************)
(* flattenZodFormData                                                      *)
(***************************************************************************)
\* Object.entries(value): the index entries of an array, then own properties.
RECURSIVE IndexEntries(_, _)
IndexEntries(elems, i) ==
  IF i > Len(elems) THEN <<>>
  ELSE (IF elems[i].k = "hole" THEN <<>>
        ELSE <<Entry(NatToStr(i - 1), elems[i])>>)
       \o IndexEntries(elems, i + 1)

ObjectEntries(value) ==
  CASE value.k = "array" -> IndexEntries(value.e, 1) \o value.p
    [] value.k = "object" -> value.p
    [] OTHER -> <<>>

\* extractLiteralValue(schema): undefined unless the field is a bare literal.
extractLiteralValue(hasSchema, schema) ==
  IF ~hasSchema \/ schema.type # "literal" \/ Len(schema.values) = 0
  THEN Undef
  ELSE schema.values[1]

\* resolveOption() as it would be if the literal were not compared: the first
\* object alternative is taken whenever the value carries a discriminator.
resolveOptionFirst(schema, discValue) ==
  LET hits == {i \in 1..Len(schema.items) : schema.items[i].type = "object"}
  IN  IF IsUndefined(discValue) \/ hits = {} THEN 0
      ELSE CHOOSE i \in hits : \A j \in hits : i <= j

\* resolveOption(): the first object alternative whose discriminator literal
\* is strictly equal to the discriminator value; 0 when there is none.
resolveOption(schema, discValue) ==
  LET hit(i) ==
        /\ schema.items[i].type = "object"
        /\ extractLiteralValue(HasField(schema.items[i], schema.discriminator),
             IF HasField(schema.items[i], schema.discriminator)
             THEN FieldSchema(schema.items[i], schema.discriminator)
             ELSE ZString) = discValue
      hits == {i \in 1..Len(schema.items) : hit(i)}
  IN  IF IsUndefined(discValue) \/ hits = {} THEN 0
      ELSE CHOOSE i \in hits : \A j \in hits : i <= j

RECURSIVE flatten(_, _, _, _)
RECURSIVE flattenShape(_, _, _, _, _, _)
RECURSIVE flattenElems(_, _, _, _, _)
RECURSIVE flattenEntries(_, _, _, _, _)
RECURSIVE flattenItems(_, _, _, _, _)

\* The walk over the fields as it would be if a field value of the wrong
\* shape ended it.
flattenShapeAborting(map, shape, i, subValue, prefix, skip) ==
  IF i > Len(shape) THEN map
  ELSE IF /\ unwrapSchema(shape[i].s).type \in {"object", "array", "record", "tuple"}
          /\ Get(subValue, shape[i].n).k \in {"string", "number", "null"}
  THEN map
  ELSE flattenShape(
         IF shape[i].n = skip /\ skip # <<>> THEN map
         ELSE flatten(map, shape[i].s, Get(subValue, shape[i].n),
                      WithPrefix(prefix, shape[i].n)),
         shape, i + 1, subValue, prefix, skip)

\* for each declared field but `skip`: flatten(field, subValue[key], newPrefix)
flattenShape(map, shape, i, subValue, prefix, skip) ==
  IF i > Len(shape) THEN map
  ELSE flattenShape(
         IF shape[i].n = skip /\ skip # <<>> THEN map
         ELSE flatten(map, shape[i].s, Get(subValue, shape[i].n),
                      WithPrefix(prefix, shape[i].n)),
         shape, i + 1, subValue, prefix, skip)

\* for each element: flatten(element, item, `${prefix}.${index}`)
flattenElems(map, element, elems, i, prefix) ==
  IF i > Len(elems) THEN map
  ELSE flattenElems(
         IF elems[i].k = "hole" THEN map   \* forEach skips holes
         ELSE flatten(map, element, elems[i], Dotted(prefix, NatToStr(i - 1))),
         element, elems, i + 1, prefix)

\* for each present key: flatten(valueType, value, `${prefix}.${key}`)
flattenEntries(map, valueType, entries, i, prefix) ==
  IF i > Len(entries) THEN map
  ELSE flattenEntries(
         flatten(map, valueType, entries[i].x, Dotted(prefix, entries[i].n)),
         valueType, entries, i + 1, prefix)

\* for each tuple position: flatten(items[i], subValue[i], `${prefix}.${i}`)
flattenItems(map, items, i, subValue, prefix) ==
  IF i > Len(items) THEN map
  ELSE flattenItems(
         flatten(map, items[i], Get(subValue, NatToStr(i - 1)),
                 Dotted(prefix, NatToStr(i - 1))),
         items, i + 1, subValue, prefix)

flatten(map, subSchema, subValue, prefix) ==
  CASE subSchema.type = "discriminatedUnion" ->
         LET discPath == WithPrefix(prefix, subSchema.discriminator)
             discValue == IF IsPlainObject(subValue)
                          THEN Get(subValue, subSchema.discriminator)
                          ELSE Undef
             withDisc == Set(map, discPath,
                             IF IsUndefined(discValue) THEN Undef ELSE discValue)
             selected == resolveOption(subSchema, discValue)
         IN  IF selected # 0 /\ IsPlainObject(subValue)
             THEN flattenShape(withDisc, subSchema.items[selected].shape, 1,
                               subValue, prefix, subSchema.discriminator)
             ELSE withDisc
    [] subSchema.type = "object" ->
         IF IsObjectLike(subValue)
         THEN flattenShape(map, subSchema.shape, 1, subValue, prefix, <<>>)
         ELSE map
    [] subSchema.type = "array" ->
         IF IsArray(subValue)
         THEN flattenElems(map, subSchema.items[1], subValue.e, 1, prefix)
         ELSE map
    [] subSchema.type = "union" ->
         Set(map, prefix, subValue)
    [] subSchema.type \in {"lazy", "optional", "pipe", "catch", "success"} ->
         flatten(map, subSchema.items[1], subValue, prefix)
    [] subSchema.type = "default" ->
         flatten(map, subSchema.items[1],
                 IF IsUndefined(subValue) THEN subSchema.defaultValue
                 ELSE subValue,
                 prefix)
    [] subSchema.type = "record" ->
         IF IsObjectLike(subValue)
         THEN flattenEntries(map, subSchema.items[1], ObjectEntries(subValue),
                             1, prefix)
         ELSE map
    [] subSchema.type = "map" ->
         IF subValue.k = "map"
         THEN flattenEntries(map, subSchema.items[1], subValue.p, 1, prefix)
         ELSE map
    [] subSchema.type = "set" ->
         IF subValue.k = "set"
         THEN flattenElems(map, subSchema.items[1], subValue.e, 1, prefix)
         ELSE map
    [] subSchema.type = "tuple" ->
         IF IsArray(subValue)
         THEN flattenItems(map, subSchema.items, 1, subValue, prefix)
         ELSE map
    [] subSchema.type = "nullable" ->
         IF subValue.k # "null"
         THEN flatten(map, subSchema.items[1], subValue, prefix)
         ELSE map
    [] subSchema.type = "literal" ->
         Set(map, prefix,
             IF Len(subSchema.values) > 0
                /\ subSchema.values[1].k \notin {"undefined", "null"}
             THEN subSchema.values[1]
             ELSE subValue)
    [] OTHER ->
         Set(map, prefix, subValue)

flattenZodFormData(schema, data) == flatten(EmptyObj, schema, data, <<>>)

(***************************************************************************)
(* getFieldArrayHelpers: add / remove / move on the flat map               *)
(***************************************************************************)
\* The characters of the model in UTF-16 code unit order (String.sort).
Alphabet ==
  <<"#", "*", "-", ".", "0", "1", "2", "3", "4", "5", "6", "7", "8", "9",
    "N", "X", "Z", "a", "c", "d", "e", "g", "i", "k", "l", "m", "n", "p",
    "q", "s", "t", "u", "x", "z">>

Code(c) == CHOOSE i \in 1..Len(Alphabet) : Alphabet[i] = c

\* a < b as Array.prototype.sort compares strings.
StrLess(a, b) ==
  \E i \in 1..(Len(a) + 1) :
    /\ i <= Len(b)
    /\ \A j \in 1..(i - 1) : a[j] = b[j]
    /\ (i > Len(a) \/ Code(a[i]) < Code(b[i]))

RECURSIVE SortStrings(_)
SortStrings(keys) ==
  IF Len(keys) = 0 THEN <<>>
  ELSE LET m == CHOOSE i \in 1..Len(keys) :
                  \A j \in 1..Len(keys) : ~StrLess(keys[j], keys[i])
       IN  <<keys[m]>> \o SortStrings(RemoveAt(keys, m))

Reverse(q) == [i \in 1..Len(q) |-> q[Len(q) + 1 - i]]

\* Length of the longest run of digits of s starting at position i.
RECURSIVE DigitRun(_, _)
DigitRun(s, i) ==
  IF i <= Len(s) /\ s[i] \in Digits THEN 1 + DigitRun(s, i + 1) ELSE 0

\* key.match(new RegExp(`^${path}\\.(\\d+)(.*)$`)): the path is used as a
\* pattern, so a "." of the path matches any character of the key.
MatchIndex(path, key) ==
  LET n == Len(path)
      run == DigitRun(key, n + 2)
      ok == /\ Len(key) >= n + 2
            /\ \A i \in 1..n : path[i] = "." \/ path[i] = key[i]
            /\ key[n + 1] = "."
            /\ run > 0
  IN  [ok |-> ok,
       digits |-> IF ok THEN SubSeq(key, n + 2, n + 1 + run) ELSE <<>>,
       index |-> IF ok THEN ParseNat(SubSeq(key, n + 2, n + 1 + run)) ELSE 0,
       suffix |-> IF ok THEN SubSeq(key, n + 2 + run, Len(key)) ELSE <<>>]

IndexedKey(path, index, suffix) == Dotted(path, NatToStr(index)) \o suffix

\* newData[newKey] = newData[key]; delete newData[key]
Rename(newData, key, newKey) ==
  Delete(Set(newData, newKey, Get(newData, key)), key)

RECURSIVE MaxIndexOf(_, _, _)
\* currentMaxIndex: the reduce over the keys that start with `${path}.`
MaxIndexOf(keys, i, path) ==
  IF i > Len(keys) THEN -1
  ELSE LET rest == MaxIndexOf(keys, i + 1, path)
           m == MatchIndex(path, keys[i])
       IN  IF StartsWith(keys[i], path \o Dot) /\ m.ok /\ m.index > rest
           THEN m.index
           ELSE rest

RECURSIVE shiftKeys(_, _, _, _, _, _, _)
\* One pass over a snapshot of keys, in the given order, renaming in place
\* every key whose index lies in lo..hi to the index plus delta.
shiftKeys(newData, keys, i, path, lo, hi, delta) ==
  IF i > Len(keys) THEN newData
  ELSE LET m == MatchIndex(path, keys[i])
       IN  shiftKeys(
             IF m.ok /\ m.index >= lo /\ m.index <= hi
             THEN Rename(newData, keys[i],
                         IndexedKey(path, m.index + delta, m.suffix))
             ELSE newData,
             keys, i + 1, path, lo, hi, delta)

RECURSIVE setEntries(_, _, _, _)
\* for (const [key, val] of entries) newData[`${base}${key}`] = val
setEntries(newData, entries, i, base) ==
  IF i > Len(entries) THEN newData
  ELSE setEntries(Set(newData, base \o entries[i].n, entries[i].x),
                  entries, i + 1, base)

NoIndex == -1
Unbounded == 1000000

\* add(value, atIndex); atIndex = NoIndex when the argument is omitted.
add(prev, path, value, atIndex) ==
  LET currentMaxIndex == MaxIndexOf(Keys(prev), 1, path)
      insertIndex == IF atIndex # NoIndex THEN atIndex ELSE currentMaxIndex + 1
      shifted ==
        IF atIndex # NoIndex /\ atIndex <= currentMaxIndex
        THEN shiftKeys(prev, Reverse(SortStrings(Keys(prev))), 1, path,
                       insertIndex, Unbounded, 1)
        ELSE prev
  IN  IF IsObjectLike(value)
      THEN setEntries(shifted, ObjectEntries(value), 1,
                      Dotted(path, NatToStr(insertIndex)) \o Dot)
      ELSE Set(shifted, Dotted(path, NatToStr(insertIndex)), value)

RECURSIVE deletePrefixed(_, _, _, _)
\* for (const key of keys) if (key.startsWith(prefix)) delete newData[key]
deletePrefixed(newData, keys, i, prefix) ==
  IF i > Len(keys) THEN newData
  ELSE deletePrefixed(
         IF StartsWith(keys[i], prefix) THEN Delete(newData, keys[i])
         ELSE newData,
         keys, i + 1, prefix)

RECURSIVE shiftDown(_, _, _, _, _)
\* remove's second loop: every key whose index is greater than the removed
\* one is renamed, in place, to the index minus one.
shiftDown(newData, keys, i, path, index) ==
  IF i > Len(keys) THEN newData
  ELSE LET m == MatchIndex(path, keys[i])
           \* key.replace(new RegExp(`^${path}\\.${currentIndex}`), ...)
           newKey == IF m.digits = NatToStr(m.index)
                     THEN IndexedKey(path, m.index - 1, m.suffix)
                     ELSE keys[i]
       IN  shiftDown(
             IF m.ok /\ m.index > index
             THEN Rename(newData, keys[i], newKey)
             ELSE newData,
             keys, i + 1, path, index)

\* remove(index)
remove(prev, path, index) ==
  LET deleted == deletePrefixed(prev, Keys(prev), 1,
                                Dotted(path, NatToStr(index)))
  IN  shiftDown(deleted, Keys(deleted), 1, path, index)

RECURSIVE deleteKeys(_, _, _)
deleteKeys(newData, keys, i) ==
  IF i > Len(keys) THEN newData
  ELSE deleteKeys(Delete(newData, keys[i]), keys, i + 1)

\* move(fromIndex, toIndex)
move(prev, path, fromIndex, toIndex) ==
  LET isItem(key) == MatchIndex(path, key).ok
                     /\ MatchIndex(path, key).index = fromIndex
      itemKeys == SelectSeq(Keys(prev), isItem)
      itemData == setEntries(EmptyObj,
                    [j \in 1..Len(itemKeys) |->
                       Entry(MatchIndex(path, itemKeys[j]).suffix,
                             Get(prev, itemKeys[j]))],
                    1, <<>>)
      removed == deleteKeys(prev, itemKeys, 1)
      shifted ==
        IF fromIndex < toIndex
        THEN shiftKeys(removed, Keys(removed), 1, path,
                       fromIndex + 1, toIndex, -1)
        ELSE IF fromIndex > toIndex
        THEN shiftKeys(removed, Reverse(SortStrings(Keys(removed))), 1, path,
                       toIndex, fromIndex - 1, 1)
        ELSE removed
  IN  IF Len(itemKeys) = 0 THEN prev
      ELSE setEntries(shifted, itemData.p, 1, Dotted(path, NatToStr(toIndex)))

(***************************************************************************)
(* flattenZodFormSchema                                                    *)
(***************************************************************************)
LazyCap == 3

EndsWith(s, suf) ==
  Len(suf) <= Len(s) /\ SubSeq(s, Len(s) - Len(suf) + 1, Len(s)) = suf

\* flattenedSchemaMap.set(key, schema): a Map keeps the place of a key that
\* is set again.
MapSet(map, key, schema) ==
  IF \E i \in 1..Len(map) : map[i].n = key
  THEN [i \in 1..Len(map) |->
          IF map[i].n = key THEN Field(key, schema) ELSE map[i]]
  ELSE Append(map, Field(key, schema))

\* The leaf stored at a path: optional unless it is a collection element.
StoredLeaf(leaf, prefix, isOptional) ==
  IF isOptional /\ ~(EndsWith(prefix, <<".", "#">>) \/ EndsWith(prefix, <<".", "*">>))
  THEN ZOptional(leaf)
  ELSE leaf

FormKey == <<"f", "o", "r", "m">>
GlobalKey == <<"g", "l", "o", "b", "a", "l">>

CommentKey == <<"c", "o", "m", "m", "e", "n", "t">>
TextKey == <<"t", "e", "x", "t">>
RepliesKey == <<"r", "e", "p", "l", "i", "e", "s">>

RECURSIVE Lazies(_, _)
\* n lazy wrappers around a schema.
Lazies(inner, n) == IF n = 0 THEN inner ELSE ZLazy(Lazies(inner, n - 1))

\* The object a recursive comment schema is defined as: a text leaf and
\* replies that hold the schema itself, through def.via and def.wraps further
\* lazy wrappers.
commentSchema(def) ==
  LET self == Lazies(ZLazySelf(def), def.wraps)
  IN  ZObject(<<Field(TextKey, def.leaf),
                Field(RepliesKey,
                      CASE def.via = "array" -> ZArray(self)
                        [] def.via = "record" -> ZRecord(self)
                        [] def.via = "optional" -> ZOptional(self)
                        [] OTHER -> self)>>)

\* currentSubSchema.def.getter()
getter(subSchema) ==
  IF subSchema.items # <<>> THEN subSchema.items[1]
  ELSE commentSchema(subSchema.values)

\* if (lazyDepth >= 3) return;
lazyExhaustedLate(lazyDepth) == lazyDepth > LazyCap
lazyExhausted(lazyDepth) == lazyDepth >= LazyCap

RECURSIVE flattenSchema(_, _, _, _, _)
RECURSIVE flattenSchemaShape(_, _, _, _, _, _)
RECURSIVE flattenSchemaOptions(_, _, _, _, _, _)

\* The inner function flatten(subSchema, prefix, {isOptional, lazyDepth}) of
\* flattenZodFormSchema, on the map built so far.
flattenSchema(map, subSchema, prefix, isOptional, lazyDepth) ==
  CASE subSchema.type = "object" ->
         flattenSchemaShape(map, subSchema.shape, 1, prefix, isOptional, lazyDepth)
    [] subSchema.type = "array" ->
         flattenSchema(map, subSchema.items[1], prefix \o <<".", "#">>,
                       isOptional, lazyDepth)
    [] subSchema.type = "tuple" ->
         IF Len(subSchema.items) = 1
         THEN MapSet(map, prefix \o <<".", "#">>, subSchema.items[1])
         ELSE IF Len(subSchema.items) > 1
         THEN MapSet(map, prefix \o <<".", "#">>, ZUnion(subSchema.items))
         ELSE map
    [] subSchema.type = "discriminatedUnion" ->
         flattenSchemaOptions(
           MapSet(map, WithPrefix(prefix, subSchema.discriminator), ZString),
           subSchema.items, 1, prefix, isOptional, lazyDepth)
    [] subSchema.type = "union" ->
         MapSet(map, prefix, StoredLeaf(subSchema, prefix, isOptional))
    [] subSchema.type = "lazy" ->
         IF lazyExhausted(lazyDepth) THEN map
         ELSE flattenSchema(map, getter(subSchema), prefix, isOptional,
                            lazyDepth + 1)
    [] subSchema.type = "optional" ->
         flattenSchema(map, subSchema.items[1], prefix, TRUE, lazyDepth)
    [] subSchema.type = "default" ->
         flattenSchema(map, subSchema.items[1], prefix, isOptional, lazyDepth)
    [] subSchema.type = "record" ->
         flattenSchema(map, subSchema.items[1], prefix \o <<".", "*">>,
                       isOptional, lazyDepth)
    [] OTHER ->
         MapSet(map, prefix, StoredLeaf(subSchema, prefix, isOptional))

flattenSchemaShape(map, shape, i, prefix, isOptional, lazyDepth) ==
  IF i > Len(shape) THEN map
  ELSE flattenSchemaShape(
         flattenSchema(map, shape[i].s, WithPrefix(prefix, shape[i].n),
                       isOptional, lazyDepth),
         shape, i + 1, prefix, isOptional, lazyDepth)

flattenSchemaOptions(map, options, i, prefix, isOptional, lazyDepth) ==
  IF i > Len(options) THEN map
  ELSE flattenSchemaOptions(
         flattenSchema(map, options[i], prefix, isOptional, lazyDepth),
         options, i + 1, prefix, isOptional, lazyDepth)

\* The shape of the flat object schema: path -> leaf schema, in map order.
flattenZodFormSchema(schema) == flattenSchema(<<>>, schema, <<>>, FALSE, 0)

(***************************************************************************)
(* coerceFormData                                                          *)
(***************************************************************************)
\* The spelling of the raw strings and number texts of the model.
Chars(text) ==
  CASE text = "" -> <<>>
    [] text = " " -> <<" ">>
    [] text = "0" -> <<"0">>
    [] text = "7" -> <<"7">>
    [] text = "07" -> <<"0", "7">>
    [] text = "on" -> <<"o", "n">>
    [] text = "yes" -> <<"y", "e", "s">>
    [] text = "true" -> <<"t", "r", "u", "e">>
    [] text = "false" -> <<"f", "a", "l", "s", "e">>
    [] text = "3" -> <<"3">>
    [] text = "x" -> <<"x">>
    [] text = "g" -> <<"g">>
    [] text = "m" -> <<"m">>
    [] text = "q" -> <<"q">>
    [] text = "2024-01-02" ->
         <<"2", "0", "2", "4", "-", "0", "1", "-", "0", "2">>
    [] text = "2024-01-02T00:00:00.000Z" ->
         <<"2", "0", "2", "4", "-", "0", "1", "-", "0", "2", "T", "0", "0",
           ":", "0", "0", ":", "0", "0", ".", "0", "0", "0", "Z">>
    [] OTHER -> <<"{", "}">>

Texts == {"", "0", "3", "7", "07", "on", "yes", "true", "false"}

Text(chars) == CHOOSE text \in Texts : Chars(text) = chars

RECURSIVE Trimmed(_)
\* The string without its leading and trailing white space, as Number(raw)
\* reads it.
Trimmed(chars) ==
  IF Len(chars) > 0 /\ chars[1] = " " THEN Trimmed(Tail(chars))
  ELSE IF Len(chars) > 0 /\ chars[Len(chars)] = " "
       THEN Trimmed(SubSeq(chars, 1, Len(chars) - 1))
       ELSE chars

\* Number.isNaN(Number(raw))
NumberIsNaN(raw) == ~NumberNotNaN(Trimmed(Chars(raw)))

\* Number(raw) when it is not NaN.
NumberOf(raw) == Num(Text(NumberKey(Trimmed(Chars(raw)))))

\* /^-?\d*\.?\d+$/
MatchesNumAsString(chars) ==
  LET t == IF Len(chars) > 0 /\ chars[1] = "-" THEN Tail(chars) ELSE chars
  IN  /\ Len(t) > 0
      /\ t[Len(t)] \in Digits
      /\ \A i \in 1..Len(t) : t[i] \in Digits \cup {"."}
      /\ Cardinality({i \in 1..Len(t) : t[i] = "."}) <= 1

\* /^\d{4}-\d{2}-\d{2}$/
MatchesDateAsString(chars) ==
  /\ Len(chars) = 10
  /\ \A i \in 1..10 : IF i \in {5, 8} THEN chars[i] = "-" ELSE chars[i] \in Digits

DateAsStringMessage == "Must be a date string (YYYY-MM-DD)"

\* A Date, held as its toISOString() text.
DateAt(iso) == Node("date", iso, <<>>, <<>>)

\* new Date(val) for a calendar date YYYY-MM-DD: midnight UTC of that day.
DateOf(val) == DateAt(val \o "T00:00:00.000Z")

\* /^(true|false|on)$/
MatchesBoolAsString(raw) == raw \in {"true", "false", "on"}

BoolAsStringMessage == "Must be a boolean string (\"true\", \"false\", or \"on\")"
NumAsStringMessage == "Must be a number string"
InvalidTypeMessage == "Invalid input"

\* The outcome of schema.parse(value): the parsed value, or a ZodError whose
\* first issue has an empty path and the given message.
Parsed(val) == [ok |-> TRUE, v |-> val, message |-> ""]
Failed(message) == [ok |-> FALSE, v |-> Undef, message |-> message]

RECURSIVE TypeParse(_, _)
RECURSIVE AnyOptionParses(_, _, _)
\* type.parse(val) of the schema itself, without coercion.
TypeParse(type, val) ==
  CASE type.type \in {"string", "number", "boolean", "date"} ->
         IF val.k = type.type THEN Parsed(val) ELSE Failed(InvalidTypeMessage)
    [] type.type = "literal" ->
         IF \E i \in 1..Len(type.values) : type.values[i] = val
         THEN Parsed(val) ELSE Failed(InvalidTypeMessage)
    [] type.type = "optional" ->
         IF val = Undef THEN Parsed(val) ELSE TypeParse(type.items[1], val)
    [] type.type = "nullable" ->
         IF val = Null THEN Parsed(val) ELSE TypeParse(type.items[1], val)
    [] type.type = "union" ->
         IF AnyOptionParses(type.items, 1, val)
         THEN Parsed(val) ELSE Failed(InvalidTypeMessage)
    [] OTHER -> Failed(InvalidTypeMessage)

AnyOptionParses(options, i, val) ==
  /\ i <= Len(options)
  /\ (TypeParse(options[i], val).ok \/ AnyOptionParses(options, i + 1, val))

\* (val) => (val === "" ? null : val)
emptyKept(val) == val
emptyToNull(val) == IF val = Str("") THEN Null ELSE val

RECURSIVE coerceFormData(_, _)
RECURSIVE coerceUnion(_, _, _)
RECURSIVE firstCoerced(_, _, _, _)
\* coerceFormData(type).parse(val)
coerceFormData(type, val) ==
  CASE type.type \in {"string", "literal"} ->
         TypeParse(type, IF val.k = "null" THEN Str("null") ELSE val)
    [] type.type = "number" ->
         IF val.k = "string" /\ MatchesNumAsString(Chars(val.v))
         THEN TypeParse(type, NumberOf(val.v))
         ELSE Failed(NumAsStringMessage)
    [] type.type = "boolean" ->
         IF val.k = "string" /\ MatchesBoolAsString(val.v)
         THEN TypeParse(type, Bool(IF val.v \in {"true", "on"}
                                   THEN "true" ELSE "false"))
         ELSE Failed(BoolAsStringMessage)
    [] type.type = "date" ->
         IF val.k = "string" /\ MatchesDateAsString(Chars(val.v))
         THEN TypeParse(type, DateOf(val.v))
         ELSE Failed(DateAsStringMessage)
    [] type.type \in {"nullable", "optional"} ->
         TypeParse(type, emptyToNull(val))
    [] type.type = "union" ->
         TypeParse(type, coerceUnion(type.items, 1, val))
    [] OTHER -> TypeParse(type, val)

\* The preprocess step of a union: the first option that coerces, else val.
coerceUnion(options, i, val) ==
  IF i > Len(options) THEN val
  ELSE firstCoerced(options, i, val, coerceFormData(options[i], val))

\* try { return coerceFormData(unionType).parse(val) } catch {}
firstCoerced(options, i, val, c) ==
  IF c.ok THEN c.v ELSE coerceUnion(options, i + 1, val)

(***************************************************************************)
(* parseFormData                                                           *)
(***************************************************************************)
RECURSIVE ReplaceDigitRuns(_)
\* key.replace(/(\d+)/g, "#")
ReplaceDigitRuns(key) ==
  IF Len(key) = 0 THEN <<>>
  ELSE IF key[1] \in Digits
       THEN <<"#">> \o ReplaceDigitRuns(SubSeq(key, DigitRun(key, 1) + 1, Len(key)))
       ELSE <<key[1]>> \o ReplaceDigitRuns(Tail(key))

matchWildcardString(pattern, key) ==
  LET patternParts == Split(pattern)
      testParts == Split(key)
  IN  /\ Len(patternParts) = Len(testParts)
      /\ \A i \in 1..Len(patternParts) :
           patternParts[i] = <<"*">> \/ patternParts[i] = testParts[i]

Includes(s, c) == \E i \in 1..Len(s) : s[i] = c

\* shape[keyWithHash] || Object.entries(shape).find(wildcard match)?.[1]
matchingSchema(shape, keyWithHash) ==
  LET exact == {i \in 1..Len(shape) : shape[i].n = keyWithHash}
      wild == {i \in 1..Len(shape) :
                 Includes(shape[i].n, "*")
                 /\ matchWildcardString(shape[i].n, keyWithHash)}
      first(S) == CHOOSE i \in S : \A j \in S : i <= j
  IN  IF exact # {} THEN [found |-> TRUE, s |-> shape[first(exact)].s]
      ELSE IF wild # {} THEN [found |-> TRUE, s |-> shape[first(wild)].s]
      ELSE [found |-> FALSE, s |-> ZString]

ExpectedNumberMessage == "Expected number, received string"

\* The catch block of the coercion loop, or the assignment after a parse.
coerceOutcome(acc, key, raw, shouldRecordError, c) ==
  IF c.ok
  THEN [acc EXCEPT !.result = Set(@, key, c.v)]
  ELSE [acc EXCEPT !.coercionErrors =
                     IF shouldRecordError THEN Set(@, key, Str(c.message))
                     ELSE @,
                   !.result = Set(@, key, Str(raw))]

\* The body of the coercion loop once the matching schema m is looked up.
coerceWith(acc, key, raw, m) ==
  IF ~m.found
  THEN [acc EXCEPT !.result = Set(@, key, Str(raw))]
  ELSE IF m.s.type = "number"
  THEN IF ~NumberIsNaN(raw)
       THEN [acc EXCEPT !.result = Set(@, key, NumberOf(raw))]
       ELSE [acc EXCEPT !.coercionErrors =
                          Set(@, key, Str(ExpectedNumberMessage)),
                        !.result = Set(@, key, Str(raw))]
  ELSE coerceOutcome(acc, key, raw,
                     m.s.type \notin {"union", "discriminatedUnion"},
                     coerceFormData(m.s, Str(raw)))

\* One pass of the coercion loop of parseFormData, for the entry (key, raw).
coerceEntry(acc, key, raw, shape) ==
  coerceWith(acc, key, raw, matchingSchema(shape, ReplaceDigitRuns(key)))

RECURSIVE coerceEntries(_, _, _, _)
\* for (const [key, formDataValue] of form.entries()) ...
coerceEntries(acc, entries, i, shape) ==
  IF i > Len(entries) THEN acc
  ELSE coerceEntries(coerceEntry(acc, entries[i].key, entries[i].raw, shape),
                     entries, i + 1, shape)

RECURSIVE collectFlattenedErrors(_, _, _)
\* Issues with a non-empty joined path, the later issue of a path winning.
collectFlattenedErrors(flattened, issues, i) ==
  IF i > Len(issues) THEN flattened
  ELSE collectFlattenedErrors(
         IF issues[i].path # <<>>
         THEN Set(flattened, issues[i].path, Str(issues[i].message))
         ELSE flattened,
         issues, i + 1)

\* { ...target, ...source }
Spread(target, source) == setEntries(target, ObjectEntries(source), 1, <<>>)

\* A merge in which the coercion messages are spread last.
mergedErrorsCoercionLast(coercionErrors, validationErrors) ==
  Spread(Spread(EmptyObj, validationErrors), coercionErrors)

\* const mergedErrors = { ...coercionErrors, ...validationErrors }
mergedErrors(coercionErrors, validationErrors) ==
  Spread(Spread(EmptyObj, coercionErrors), validationErrors)

extractFieldErrors(flattened) ==
  Obj(SelectSeq(flattened.p, LAMBDA e : e.n # FormKey /\ e.n # GlobalKey))

NoErrors == [form |-> Undef, global |-> Undef, fields |-> Undef, flattened |-> Undef]

\* overrides?.form ?? flattened.form
Coalesce(a, b) == IF a.k \in {"undefined", "null"} THEN b ELSE a

\* The payload once the fields tree is built; the call throws when
\* unflattenZodFormErrors does.
payloadWith(flattened, overrides, fields) ==
  [threw |-> fields.threw,
   errors |-> [form |-> Coalesce(overrides.form, Get(flattened, FormKey)),
               global |-> Coalesce(overrides.global, Get(flattened, GlobalKey)),
               fields |-> fields.d,
               flattened |-> flattened]]

\* buildErrorPayload(flattened, overrides)
buildErrorPayload(flattened, overrides) ==
  payloadWith(flattened, overrides,
              unflattenZodFormErrors(extractFieldErrors(flattened), <<>>))

Returned(success, data, errors) ==
  [threw |-> FALSE, success |-> success, data |-> data, errors |-> errors]
Thrown == [threw |-> TRUE, success |-> FALSE, data |-> Undef, errors |-> NoErrors]

NotValidated == [ran |-> FALSE, input |-> Undef, issues |-> <<>>]

\* return { success: false, errors: buildErrorPayload(...) }
failureOf(payload) ==
  IF payload.threw THEN Thrown ELSE Returned(FALSE, Undef, payload.errors)

\* The return on the merged errors: a success when there are none.
respondMerged(merged, data) ==
  IF Len(merged.p) = 0 THEN Returned(TRUE, data, NoErrors)
  ELSE failureOf(buildErrorPayload(merged, [form |-> Undef, global |-> Undef]))

\* What parseFormData returns after schema.safeParse reported the issues.
respond(coercionErrors, data, issues) ==
  IF issues = <<>> /\ Len(coercionErrors.p) = 0
  THEN Returned(TRUE, data, NoErrors)
  ELSE respondMerged(
         mergedErrors(coercionErrors, collectFlattenedErrors(EmptyObj, issues, 1)),
         data)

\* parseFormData from the unflatten step on: its locals and its outcome.
parseCoerced(coerced, unflattenedData, issues) ==
  [result |-> coerced.result,
   coercionErrors |-> coerced.coercionErrors,
   validated |-> IF unflattenedData.threw THEN NotValidated
                 ELSE [ran |-> TRUE, input |-> unflattenedData.d,
                       issues |-> issues],
   out |-> IF unflattenedData.threw THEN Thrown
           ELSE respond(coerced.coercionErrors, unflattenedData.d, issues)]

\* parseFormData from the end of the coercion loop on.
parseResult(coerced, issues) ==
  parseCoerced(coerced, unflattenZodFormData(coerced.result, <<>>), issues)

\* parseFormData(form, {schema}), with the issues that schema.safeParse
\* reports on the assembled value: what the call leaves in its locals and
\* what it returns or throws.
parseFormData(entries, schema, issues) ==
  parseResult(
    coerceEntries([result |-> EmptyObj, coercionErrors |-> EmptyObj],
                  entries, 1, flattenZodFormSchema(schema)),
    issues)

(***************************************************************************)
(* convertObjectToFormData / convertFormDataToObject                       *)
(***************************************************************************)
RECURSIVE Concat(_)
\* The text spelled by a sequence of characters.
Concat(chars) == IF chars = <<>> THEN "" ELSE Head(chars) \o Concat(Tail(chars))

RECURSIVE JSONText(_)
RECURSIVE JSONList(_, _)
RECURSIVE JSONProps(_, _)
\* JSON.stringify(value)
JSONText(val) ==
  CASE val.k = "array" -> "[" \o JSONList(val.e, 1) \o "]"
    [] val.k = "object" -> "{" \o JSONProps(val.p, 1) \o "}"
    [] val.k \in {"string", "date"} -> "\"" \o val.v \o "\""
    [] val.k \in {"number", "boolean"} -> val.v
    [] OTHER -> "null"

JSONList(elems, i) ==
  IF i > Len(elems) THEN ""
  ELSE JSONText(elems[i]) \o (IF i < Len(elems) THEN "," ELSE "")
       \o JSONList(elems, i + 1)

JSONProps(props, i) ==
  IF i > Len(props) THEN ""
  ELSE IF IsUndefined(props[i].x) THEN JSONProps(props, i + 1)
  ELSE "\"" \o Concat(props[i].n) \o "\":" \o JSONText(props[i].x)
       \o (IF \E j \in (i + 1)..Len(props) : ~IsUndefined(props[j].x)
           THEN "," ELSE "")
       \o JSONProps(props, i + 1)

\* toFormDataValue(value): the text appended to the FormData, or null.
NotSerialized == [skip |-> TRUE, raw |-> ""]
Serialized(raw) == [skip |-> FALSE, raw |-> raw]

toFormDataValue(val) ==
  CASE IsUndefined(val) -> NotSerialized
    [] val.k = "null" -> Serialized("")
    [] val.k \in {"date", "string", "number", "boolean"} -> Serialized(val.v)
    [] OTHER -> Serialized(JSONText(val))

RECURSIVE appendEntries(_, _, _)
\* for (const [key, value] of Object.entries(flattened)) formData.append(...)
appendEntries(formData, entries, i) ==
  IF i > Len(entries) THEN formData
  ELSE appendEntries(
         IF toFormDataValue(entries[i].x).skip THEN formData
         ELSE Append(formData, [key |-> entries[i].n,
                                raw |-> toFormDataValue(entries[i].x).raw]),
         entries, i + 1)

convertObjectToFormData(schema, data) ==
  appendEntries(<<>>, ObjectEntries(flattenZodFormData(schema, data)), 1)

\* try { result[key] = coerceFormData(schema).parse(raw) } catch { raw }
convertedOr(raw, c) == IF c.ok THEN c.v ELSE Str(raw)

\* The value convertFormDataToObject stores for an entry whose schema is m.
convertWith(raw, m) ==
  IF ~m.found THEN Str(raw)
  ELSE IF unwrapSchema(m.s).type = "number"
  THEN (IF ~NumberIsNaN(raw) THEN NumberOf(raw) ELSE Str(raw))
  ELSE convertedOr(raw, coerceFormData(m.s, Str(raw)))

RECURSIVE convertEntries(_, _, _, _)
convertEntries(acc, entries, i, fields) ==
  IF i > Len(entries) THEN acc
  ELSE convertEntries(
         Set(acc, entries[i].key,
             convertWith(entries[i].raw,
                         matchingSchema(fields, ReplaceDigitRuns(entries[i].key)))),
         entries, i + 1, fields)

convertFormDataToObject(schema, entries) ==
  unflattenZodFormData(
    convertEntries(EmptyObj, entries, 1, flattenZodFormSchema(schema)), <<>>)

(***************************************************************************)
(* getFieldProps                                                           *)
(***************************************************************************)
\* { name, value, onChange, error }: flattenedData?.[name] ?? undefined
buildLeaf(currentPath, data) ==
  [kind |-> "leaf", name |-> currentPath,
   value |-> IF Get(data, currentPath).k = "null" THEN Undef
             ELSE Get(data, currentPath),
   fields |-> <<>>, items |-> <<>>]

FieldObject(fields) ==
  [kind |-> "object", name |-> <<>>, value |-> Undef,
   fields |-> fields, items |-> <<>>]

FieldArray(items) ==
  [kind |-> "array", name |-> <<>>, value |-> Undef,
   fields |-> <<>>, items |-> items]

\* key.match(new RegExp(`^${prefix}\.(\d+)`)): the prefix is not escaped and
\* `\.` in a template literal is a bare dot, so every dot matches any
\* character; the index is the digit run that follows.
MatchesElement(prefix, key) ==
  /\ prefix # <<>>
  /\ Len(key) >= Len(prefix) + 2
  /\ \A i \in 1..Len(prefix) : prefix[i] = "." \/ prefix[i] = key[i]
  /\ key[Len(prefix) + 2] \in Digits

ElementIndex(prefix, key) ==
  ParseNat(SubSeq(key, Len(prefix) + 2,
                  Len(prefix) + 1 + DigitRun(key, Len(prefix) + 2)))

\* Array.from(indices).sort((a, b) => a - b)
RECURSIVE SortedIndices(_)
SortedIndices(indices) ==
  IF indices = {} THEN <<>>
  ELSE LET least == CHOOSE i \in indices : \A j \in indices : i <= j
       IN  <<least>> \o SortedIndices(indices \ {least})

HasFieldNamed(fields, name) == \E i \in 1..Len(fields) : fields[i].n = name

RECURSIVE getFieldProps(_, _, _)
RECURSIVE objectFields(_, _, _, _)
RECURSIVE mergedFields(_, _, _, _, _, _)
RECURSIVE mergedOptions(_, _, _, _, _, _)
RECURSIVE elementFields(_, _, _, _, _)

\* getFieldProps(field, path, flattenedData); path is held joined by dots.
getFieldProps(field, path, data) ==
  CASE field.type = "discriminatedUnion" ->
         FieldObject(
           mergedOptions(
             <<Entry(field.discriminator,
                     getFieldProps(ZString, WithPrefix(path, field.discriminator),
                                   data))>>,
             field.items, 1, path, data, field.discriminator))
    [] field.type = "union" ->
         IF \E i \in 1..Len(field.items) : field.items[i].type = "object"
         THEN FieldObject(mergedOptions(<<>>, field.items, 1, path, data, <<>>))
         ELSE buildLeaf(path, data)
    [] field.type = "object" ->
         FieldObject(objectFields(field.shape, 1, path, data))
    [] field.type = "array" ->
         FieldArray(
           elementFields(
             field.items[1],
             SortedIndices({ElementIndex(path, data.p[i].n) :
                              i \in {j \in 1..Len(data.p) :
                                       MatchesElement(path, data.p[j].n)}}),
             1, path, data))
    [] field.type \in {"optional", "default", "nullable"} ->
         getFieldProps(field.items[1], path, data)
    [] OTHER -> buildLeaf(path, data)

objectFields(shape, i, path, data) ==
  IF i > Len(shape) THEN <<>>
  ELSE <<Entry(shape[i].n,
               getFieldProps(shape[i].s, WithPrefix(path, shape[i].n), data))>>
       \o objectFields(shape, i + 1, path, data)

\* The keys of one option's shape merged into the view, first key wins.
mergedFields(merged, shape, i, path, data, discriminator) ==
  IF i > Len(shape) THEN merged
  ELSE mergedFields(
         IF shape[i].n = discriminator \/ HasFieldNamed(merged, shape[i].n)
         THEN merged
         ELSE Append(merged,
                     Entry(shape[i].n,
                           getFieldProps(shape[i].s,
                                         WithPrefix(path, shape[i].n), data))),
         shape, i + 1, path, data, discriminator)

mergedOptions(merged, options, i, path, data, discriminator) ==
  IF i > Len(options) THEN merged
  ELSE mergedOptions(
         IF options[i].type = "object"
         THEN mergedFields(merged, options[i].shape, 1, path, data, discriminator)
         ELSE merged,
         options, i + 1, path, data, discriminator)

elementFields(element, sorted, i, path, data) ==
  IF i > Len(sorted) THEN <<>>
  ELSE <<getFieldProps(element, Dotted(path, NatToStr(sorted[i])), data)>>
       \o elementFields(element, sorted, i + 1, path, data)

(***************************************************************************)
(* Deep equality (toEqual on plain data): same kind and payload, the same  *)
(* elements in order, the same own keys with deeply equal values.          *)
(***************************************************************************)
RECURSIVE DeepEqual(_, _)
DeepEqual(a, b) ==
  /\ a.k = b.k
  /\ a.v = b.v
  /\ Len(a.e) = Len(b.e)
  /\ \A i \in 1..Len(a.e) : DeepEqual(a.e[i], b.e[i])
  /\ KeySet(a) = KeySet(b)
  /\ \A i \in 1..Len(a.p) :
       DeepEqual(a.p[i].x, b.p[PropIndex(b, a.p[i].n)].x)

(***************************************************************************)
(* Bounds and input families of the flatten / unflatten calls              *)
(***************************************************************************)
MaxArrayLen == 2

\* Dynamic keys tried for records: a word, a negative number, an index.
RecordKeys == {<<"k">>, <<"-", "1">>, <<"0">>}

StrX == Str("x")
LitG == Str("g")
LitM == Str("m")

\* guest{expiresAt?} / member{level} behind the discriminator "t".
StatusUnion ==
  ZDiscriminatedUnion(<<"t">>,
    << ZObject(<<Field(<<"t">>, ZLiteral(<<LitG>>)),
                 Field(<<"x">>, ZOptional(ZString))>>),
       ZObject(<<Field(<<"t">>, ZLiteral(<<LitM>>)),
                 Field(<<"l">>, ZNumber)>>) >>)

Schemas ==
  << ZObject(<<Field(<<"n">>, ZString), Field(<<"g">>, ZOptional(ZNumber))>>),
    ZObject(<<Field(<<"u">>,
               ZObject(<<Field(<<"n">>, ZString),
                         Field(<<"a">>, ZObject(<<Field(<<"c">>, ZString)>>))>>))>>),
    ZObject(<<Field(<<"i">>, ZArray(ZString))>>),
    ZObject(<<Field(<<"i">>, ZOptional(ZArray(ZString))),
              Field(<<"s">>, ZObject(<<Field(<<"p">>, ZArray(ZString))>>))>>),
    ZObject(<<Field(<<"u">>, ZArray(ZObject(<<Field(<<"n">>, ZString)>>)))>>),
    ZObject(<<Field(<<"m">>, ZRecord(ZString))>>),
    ZObject(<<Field(<<"z">>, ZNullable(ZString)), Field(<<"n">>, ZString)>>),
    ZObject(<<Field(<<"c">>, ZTuple(<<ZNumber, ZString>>))>>),
    ZObject(<<Field(<<"d">>, StatusUnion)>>),
    ZObject(<<Field(<<"u">>, ZArray(StatusUnion))>>),
    StatusUnion,
    ZObject(<<Field(<<"a">>, ZBoolean), Field(<<"n">>, ZNumber)>>),
    ZObject(<<Field(<<"a">>, ZString), Field(<<"i">>, ZArray(ZNumber))>>),
    ZObject(<<Field(<<"c">>, ZTuple(<<ZNumber, ZBoolean>>))>>),
    ZObject(<<Field(<<"a", "2">>, ZNumber),
              Field(<<"g">>, ZOptional(ZNumber))>>),
    ZObject(<<Field(<<"a">>, ZBoolean),
              Field(<<"s">>, ZOptional(ZBoolean)),
              Field(<<"d">>, ZOptional(ZDate))>>),
    ZObject(<<Field(<<"z">>, ZNullable(ZString)),
              Field(<<"k">>, ZNullable(ZNumber)),
              Field(<<"i">>, ZArray(ZNullable(ZString)))>>),
    ZObject(<<Field(<<"t">>, ZLiteral(<<LitG>>)), Field(<<"n">>, ZString)>>),
    ZObject(<<Field(FormKey, ZBoolean), Field(<<"a">>, ZString)>>),
    ZObject(<<Field(<<"u">>, ZObject(<<Field(<<"i">>, ZArray(ZString))>>)),
              Field(<<"u", "x", "i">>, ZArray(ZString)),
              Field(<<"n">>, ZString)>>),
    ZObject(<<Field(<<"i">>, ZArray(ZString)),
              Field(<<"i", "x">>, ZArray(ZString)),
              Field(<<"n">>, ZString)>>) >>

\* The schemas whose values are flattened, and those forms are parsed with.
ValueSchemas == 1..11 \cup {16, 18}
FormSchemas == 12..15 \cup {9, 17, 19}

RECURSIVE SeqsUpTo(_, _)
\* All sequences over S of length at most n.
SeqsUpTo(S, n) ==
  IF n = 0 THEN {<<>>}
  ELSE LET shorter == SeqsUpTo(S, n - 1)
       IN  shorter \cup {Append(q, x) : q \in {r \in shorter : Len(r) = n - 1}, x \in S}

RECURSIVE ValuesOf(_)
RECURSIVE PropsOf(_, _)
RECURSIVE ItemsOf(_, _)

\* The property lists of the partial values of an object shape: each field
\* is either left out or holds a value of its schema.
PropsOf(shape, i) ==
  IF i > Len(shape) THEN {<<>>}
  ELSE LET rest == PropsOf(shape, i + 1)
       IN  rest \cup {<<Entry(shape[i].n, x)>> \o r :
                        x \in ValuesOf(shape[i].s), r \in rest}

ItemsOf(items, i) ==
  IF i > Len(items) THEN {<<>>}
  ELSE {<<x>> \o r : x \in ValuesOf(items[i]), r \in ItemsOf(items, i + 1)}

\* The values tried at a position: those of the schema's shape (objects may
\* omit fields, arrays and records may be empty) and null.
ValuesOf(s) ==
  CASE s.type = "string" -> {StrX}
    [] s.type = "number" -> {Num("3")}
    [] s.type = "boolean" -> {Bool("true")}
    [] s.type = "date" -> {DateAt("2024-01-02T00:00:00.000Z")}
    [] s.type = "literal" -> {s.values[1]}
    [] s.type = "object" -> {Obj(props) : props \in PropsOf(s.shape, 1)}
    [] s.type = "array" ->
         {Arr(q) : q \in SeqsUpTo(ValuesOf(s.items[1]), MaxArrayLen)}
    [] s.type = "tuple" -> {Arr(q) : q \in ItemsOf(s.items, 1)}
    [] s.type = "record" ->
         {Obj(<<>>)} \cup
         {Obj(<<Entry(key, x)>>) : key \in RecordKeys, x \in ValuesOf(s.items[1])}
    [] s.type = "optional" -> ValuesOf(s.items[1])
    [] s.type = "nullable" -> ValuesOf(s.items[1]) \cup {Null}
    [] s.type = "discriminatedUnion" ->
         UNION {ValuesOf(s.items[i]) : i \in 1..Len(s.items)}
         \cup {Obj(<<Entry(s.discriminator, Str("q"))>>),
               Obj(<<Entry(s.discriminator, LitM), Entry(<<"l">>, Num("3")),
                     Entry(<<"x">>, StrX)>>)}
    [] OTHER -> {StrX}

\* Flat maps of one array of leaves whose indices may have gaps: entries
\* i.<index> for distinct indices up to MaxIndex, in any insertion order.
MaxIndex == 3
MaxEntries == 3
MaxRootSegments == 2

IndexValue(i) ==
  CASE i = 0 -> Str("e0") [] i = 1 -> Str("e1") [] i = 2 -> Str("e2")
    [] i = 3 -> Str("e3") [] OTHER -> Str("e")

IndexLists ==
  {q \in SeqsUpTo(0..MaxIndex, MaxEntries) :
     Len(q) > 0 /\ \A a, b \in 1..Len(q) : a # b => q[a] # q[b]}

ItemsPath == <<"i">>

SparseMap(q) ==
  Obj([j \in 1..Len(q) |->
         Entry(Dotted(ItemsPath, NatToStr(q[j])), IndexValue(q[j]))])

(***************************************************************************)
(* State                                                                   *)
(***************************************************************************)
VARIABLES
  pc,             \* position of the current call sequence
  schemaId,       \* index into Schemas of the schema in use (0: none)
  value,          \* the value tree passed to flattenZodFormData
  flat,           \* the flat map (flatten's result / unflatten's input)
  tree,           \* outcome of the last unflatten call
  root,           \* root passed to the last unflatten call, <<>> when none
  flattenedData,  \* useZodForm's flat map state
  elements,       \* the ordinary list the array helpers are compared with
  prevData,       \* flattenedData before the last helper call
  lastOp,         \* the last helper call and its arguments
  opCount,        \* number of helper calls made
  form,           \* the entries of the submitted FormData, in order
  result,         \* parseFormData's flat map of coerced values
  coercionErrors, \* parseFormData's map of coercion messages
  validated,      \* the schema.safeParse call parseFormData made
  out,            \* what parseFormData returned, or that it threw
  lazySchema,     \* the schema passed to flattenZodFormSchema
  shape,          \* the shape flattenZodFormSchema returned
  fieldTree       \* the binding tree getFieldProps returned

arrVars == <<flattenedData, elements, prevData, lastOp, opCount>>

parseVars == <<form, result, coercionErrors, validated, out>>

auxVars == <<lazySchema, shape, fieldTree>>
vars == <<pc, schemaId, value, flat, tree, root, arrVars, parseVars, auxVars>>

NoOp == [op |-> "none", a |-> 0, b |-> 0]

\* No form is mounted.
ArrIdle ==
  /\ flattenedData = EmptyObj
  /\ elements = <<>>
  /\ prevData = EmptyObj
  /\ lastOp = NoOp
  /\ opCount = 0

NotCalled == [threw |-> FALSE, success |-> FALSE, data |-> Undef, errors |-> NoErrors]

\* Nothing has been submitted.
ParseIdle ==
  /\ form = <<>>
  /\ result = EmptyObj
  /\ coercionErrors = EmptyObj
  /\ validated = NotValidated
  /\ out = NotCalled

\* flattenZodFormSchema has not been called.
AuxIdle ==
  /\ lazySchema = ZString
  /\ shape = <<>>
  /\ fieldTree = FieldObject(<<>>)

SchemaInUse == Schemas[schemaId]

(***************************************************************************)
(* Specification of the flatten / unflatten calls                          *)
(***************************************************************************)
InitValue ==
  /\ pc = "value"
  /\ schemaId \in ValueSchemas
  /\ value \in ValuesOf(Schemas[schemaId])
  /\ flat = EmptyObj
  /\ tree = Ok(Undef)
  /\ root = <<>>
  /\ AuxIdle
  /\ ArrIdle
  /\ ParseIdle

InitSparse ==
  /\ pc = "flat"
  /\ schemaId = 0
  /\ value = Undef
  /\ flat \in {SparseMap(q) : q \in IndexLists}
  /\ tree = Ok(Undef)
  /\ root = <<>>
  /\ AuxIdle
  /\ ArrIdle
  /\ ParseIdle

\* Values of the wrong shape for a container position.
Mismatches == {StrX, Null, Num("3"), EmptyArr}

RECURSIVE WrongOf(_)
\* The values of a schema with a mismatch at one position: at the position
\* itself, in one field of an object or as the item of an array.
WrongOf(s) ==
  Mismatches \cup
  CASE s.type = "object" ->
         UNION {{Set(val, s.shape[i].n, w) :
                   val \in ValuesOf(s), w \in WrongOf(s.shape[i].s)} :
                i \in 1..Len(s.shape)}
    [] s.type = "array" -> {Arr(<<w>>) : w \in WrongOf(s.items[1])}
    [] s.type \in {"optional", "nullable"} -> WrongOf(s.items[1])
    [] OTHER -> {}

InitWrong ==
  /\ pc = "value"
  /\ schemaId \in ValueSchemas
  /\ value \in WrongOf(Schemas[schemaId]) \cup {Undef}
  /\ flat = EmptyObj
  /\ tree = Ok(Undef)
  /\ root = <<>>
  /\ AuxIdle
  /\ ArrIdle
  /\ ParseIdle

\* Flat maps that hold a value object at a key and an entry below that key,
\* in either insertion order.
HeldPath == <<"u">>

HeldMaps ==
  LET pairs == {<<Entry(HeldPath, held), Entry(Dotted(HeldPath, sub), StrX)>> :
                  held \in {Obj(<<Entry(<<"n">>, StrX)>>), Arr(<<StrX>>),
                            EmptyObj, EmptyArr},
                  sub \in {<<"n">>, <<"b">>, <<"0">>}}
  IN  {Obj(q) : q \in pairs} \cup {Obj(Reverse(q)) : q \in pairs}

InitHeld ==
  /\ pc = "held"
  /\ schemaId = 0
  /\ value = Undef
  /\ flat \in HeldMaps
  /\ tree = Ok(Undef)
  /\ root = <<>>
  /\ AuxIdle
  /\ ArrIdle
  /\ ParseIdle

Init == InitValue \/ InitSparse \/ InitWrong \/ InitHeld

\* flattenZodFormData(schema, value)
Flatten ==
  /\ pc = "value"
  /\ flat' = flattenZodFormData(SchemaInUse, value)
  /\ pc' = "flat"
  /\ UNCHANGED <<auxVars, schemaId, value, tree, root, arrVars, parseVars>>

\* unflattenZodFormData(flat)
UnflattenData ==
  /\ pc \in {"flat", "held"}
  /\ tree' = unflattenZodFormData(flat, <<>>)
  /\ flat' = dataAfterUnflatten(flat, <<>>)
  /\ pc' = IF pc = "held" THEN "heldData" ELSE "data"
  /\ UNCHANGED <<auxVars, schemaId, value, root, arrVars, parseVars>>

\* unflattenZodFormErrors(flat), on a flat map of messages
UnflattenErrors ==
  /\ pc = "flat"
  /\ \A i \in 1..Len(flat.p) : flat.p[i].x.k = "string"
  /\ tree' = unflattenZodFormErrors(flat, <<>>)
  /\ pc' = "errors"
  /\ UNCHANGED <<auxVars, schemaId, value, flat, root, arrVars, parseVars>>

\* The roots a caller can name for a flat map: the dotted prefixes of its keys.
RootsOf(map) ==
  UNION {{JoinDots(SubSeq(Split(map.p[i].n), 1, n)) :
            n \in {m \in 1..MaxRootSegments : m < Len(Split(map.p[i].n))}} :
         i \in 1..Len(map.p)}


\* unflattenZodFormData(flat, root)
UnflattenDataAt ==
  /\ pc \in {"flat", "held"}
  /\ \E r \in RootsOf(flat) :
       /\ root' = r
       /\ tree' = unflattenZodFormData(flat, r)
       /\ flat' = dataAfterUnflatten(flat, r)
  /\ pc' = IF pc = "held" THEN "heldData" ELSE "dataAt"
  /\ UNCHANGED <<auxVars, schemaId, value, arrVars, parseVars>>

\* unflattenZodFormErrors(flat, root), on a flat map of messages
UnflattenErrorsAt ==
  /\ pc = "flat"
  /\ \A i \in 1..Len(flat.p) : flat.p[i].x.k = "string"
  /\ \E r \in RootsOf(flat) :
       /\ root' = r
       /\ tree' = unflattenZodFormErrors(flat, r)
  /\ pc' = "errorsAt"
  /\ UNCHANGED <<auxVars, schemaId, value, flat, arrVars, parseVars>>

\* convertObjectToFormData(schema, value)
ConvertObjectToFormData ==
  /\ pc = "value"
  /\ form' = convertObjectToFormData(SchemaInUse, value)
  /\ pc' = "formData"
  /\ UNCHANGED <<auxVars, schemaId, value, flat, tree, root, arrVars,
                 result, coercionErrors, validated, out>>

\* convertFormDataToObject(schema, formData)
ConvertFormDataToObject ==
  /\ pc = "formData"
  /\ tree' = convertFormDataToObject(SchemaInUse, form)
  /\ pc' = "object"
  /\ UNCHANGED <<auxVars, schemaId, value, flat, root, arrVars, parseVars>>

\* getFieldProps(schema, [], flattenZodFormData(schema, value))
GetFieldProps ==
  /\ pc = "flat"
  /\ schemaId # 0
  /\ fieldTree' = getFieldProps(SchemaInUse, <<>>, flat)
  /\ pc' = "fields"
  /\ UNCHANGED <<lazySchema, shape, schemaId, value, flat, tree, root, arrVars,
                 parseVars>>

Next ==
  \/ GetFieldProps
  \/ ConvertObjectToFormData
  \/ ConvertFormDataToObject
  \/ Flatten
  \/ UnflattenData
  \/ UnflattenErrors
  \/ UnflattenDataAt
  \/ UnflattenErrorsAt

Spec == Init /\ [][Next]_vars

(***************************************************************************)
(* Properties of the flatten / unflatten calls                             *)
(***************************************************************************)
FieldNames(s) == {s.shape[i].n : i \in 1..Len(s.shape)}

RECURSIVE FullyPopulated(_, _)
\* v matches s with every declared field present, no null or undefined
\* anywhere, no empty array or record, and no record key that is a
\* non-negative integer.
FullyPopulated(s, v) ==
  CASE s.type = "string" -> v.k = "string"
    [] s.type = "number" -> v.k = "number"
    [] s.type = "literal" -> v = s.values[1]
    [] s.type = "object" ->
         /\ v.k = "object"
         /\ KeySet(v) = FieldNames(s)
         /\ \A i \in 1..Len(s.shape) :
              FullyPopulated(s.shape[i].s, Get(v, s.shape[i].n))
    [] s.type = "array" ->
         /\ v.k = "array"
         /\ Len(v.e) > 0
         /\ \A i \in 1..Len(v.e) : FullyPopulated(s.items[1], v.e[i])
    [] s.type = "tuple" ->
         /\ v.k = "array"
         /\ Len(v.e) = Len(s.items)
         /\ \A i \in 1..Len(v.e) : FullyPopulated(s.items[i], v.e[i])
    [] s.type = "record" ->
         /\ v.k = "object"
         /\ Len(v.p) > 0
         /\ \A i \in 1..Len(v.p) :
              ~IsDigits(v.p[i].n) /\ FullyPopulated(s.items[1], v.p[i].x)
    [] s.type \in {"optional", "nullable"} -> FullyPopulated(s.items[1], v)
    [] s.type = "discriminatedUnion" ->
         \E i \in 1..Len(s.items) : FullyPopulated(s.items[i], v)
    [] OTHER -> FALSE

\* C1: round trip. For every schema and every fully-populated value matching
\* it whose record keys do not look like non-negative integers, unflattening
\* the flattened value gives back a deeply equal value.
C1_RoundTrip ==
  (pc = "data" /\ schemaId # 0 /\ FullyPopulated(SchemaInUse, value))
    => (~tree.threw /\ DeepEqual(tree.d, value))

RECURSIVE LeafPaths(_, _)
\* The leaf paths a schema declares through object fields.
LeafPaths(s, prefix) ==
  CASE s.type = "object" ->
         UNION {LeafPaths(s.shape[i].s, WithPrefix(prefix, s.shape[i].n)) :
                  i \in 1..Len(s.shape)}
    [] s.type \in {"optional", "nullable", "default", "lazy"} ->
         LeafPaths(s.items[1], prefix)
    [] s.type \in {"string", "number", "boolean", "date", "literal", "enum"} ->
         {prefix}
    [] OTHER -> {}

\* C5: every declared object leaf path is a key of the flattened map, for
\* every partial value (fields or whole nested objects absent or null), and
\* holds undefined where the value omits the field.
C5_LeafPathsPresent ==
  (pc = "flat" /\ schemaId # 0 /\ SchemaInUse.type = "object")
    => \A path \in LeafPaths(SchemaInUse, <<>>) : HasProp(flat, path)

RECURSIVE EmptyArrayFields(_, _, _)
\* Paths of the array-typed fields (reached through object fields) whose
\* value is an empty array or is absent.
EmptyArrayFields(s, v, prefix) ==
  CASE s.type = "object" ->
         UNION {EmptyArrayFields(s.shape[i].s,
                                 IF IsObjectLike(v) THEN Get(v, s.shape[i].n)
                                 ELSE Undef,
                                 WithPrefix(prefix, s.shape[i].n)) :
                  i \in 1..Len(s.shape)}
    [] s.type \in {"optional", "nullable"} ->
         EmptyArrayFields(s.items[1], v, prefix)
    [] s.type = "array" ->
         IF v.k \in {"undefined", "null"} \/ (IsArray(v) /\ Len(v.e) = 0)
         THEN {prefix}
         ELSE {}
    [] OTHER -> {}

KeysUnder(map, path) == {key \in KeySet(map) : StartsWith(key, path \o Dot)}

\* C6: array placeholder row. An array-typed field whose value is an empty
\* array or absent is flattened to exactly one entry, <field>.0, holding
\* undefined.
C6_ArrayPlaceholderRow ==
  (pc = "flat" /\ schemaId # 0)
    => \A path \in EmptyArrayFields(SchemaInUse, value, <<>>) :
         /\ KeysUnder(flat, path) = {Dotted(path, <<"0">>)}
         /\ Get(flat, Dotted(path, <<"0">>)) = Undef

RECURSIVE UnionPositions(_, _, _)
\* The discriminated-union positions the walk reaches: the union's schema,
\* the value at the position and the position's prefix.
UnionPositions(s, v, prefix) ==
  CASE s.type = "discriminatedUnion" -> {[s |-> s, v |-> v, prefix |-> prefix]}
    [] s.type = "object" ->
         IF IsObjectLike(v)
         THEN UNION {UnionPositions(s.shape[i].s, Get(v, s.shape[i].n),
                                    WithPrefix(prefix, s.shape[i].n)) :
                       i \in 1..Len(s.shape)}
         ELSE {}
    [] s.type = "array" ->
         IF IsArray(v)
         THEN UNION {UnionPositions(s.items[1], v.e[i],
                                    Dotted(prefix, NatToStr(i - 1))) :
                       i \in 1..Len(v.e)}
         ELSE {}
    [] s.type = "optional" -> UnionPositions(s.items[1], v, prefix)
    [] OTHER -> {}

\* The discriminator value the value carries at a union position.
TagOf(pos) ==
  IF IsPlainObject(pos.v) THEN Get(pos.v, pos.s.discriminator) ELSE Undef

\* The alternatives whose discriminator literal equals the carried value.
Matching(pos) ==
  {i \in 1..Len(pos.s.items) :
     /\ TagOf(pos).k # "undefined"
     /\ FieldSchema(pos.s.items[i], pos.s.discriminator).values[1] = TagOf(pos)}

OwnFields(pos, i) == FieldNames(pos.s.items[i]) \ {pos.s.discriminator}

AnyField(pos) == UNION {FieldNames(pos.s.items[i]) : i \in 1..Len(pos.s.items)}

\* C7: at a discriminated-union position the flat map holds the
\* discriminator path with the value's discriminator, the non-discriminator
\* fields of the alternative whose literal equals it, each at
\* prefix.fieldName with the value's field, and no key of another
\* alternative; with no matching alternative only the discriminator path.
C7_DiscriminatedUnion ==
  (pc = "flat" /\ schemaId # 0)
    => \A pos \in UnionPositions(SchemaInUse, value, <<>>) :
         LET at(name) == WithPrefix(pos.prefix, name)
         IN  /\ HasProp(flat, at(pos.s.discriminator))
             /\ Get(flat, at(pos.s.discriminator)) = TagOf(pos)
             /\ {name \in AnyField(pos) : HasProp(flat, at(name))}
                  = {pos.s.discriminator}
                      \cup UNION {OwnFields(pos, i) : i \in Matching(pos)}
             /\ \A i \in Matching(pos) : \A name \in OwnFields(pos, i) :
                  Get(flat, at(name)) = Get(pos.v, name)

\* A member value that also carries the guest's field has been flattened:
\* the member's field is a key, the guest's field is not.
C7_Witness ==
  /\ pc = "flat"
  /\ schemaId = 9
  /\ Get(Get(value, <<"d">>), <<"t">>) = LitM
  /\ HasProp(Get(value, <<"d">>), <<"x">>)
  /\ Get(flat, <<"d", ".", "l">>) = Num("3")
  /\ ~HasProp(flat, <<"d", ".", "x">>)

\* C10: sparse array reconstruction. Entries for an array of leaves whose
\* indices have gaps unflatten (data and errors alike) to an array holding
\* exactly the supplied elements in the order of the entries, its length the
\* number of entries, with no hole.
C10_SparseArray ==
  (pc \in {"data", "errors"} /\ schemaId = 0)
    => /\ ~tree.threw
       /\ KeySet(tree.d) = {ItemsPath}
       /\ LET items == Get(tree.d, ItemsPath)
          IN  /\ IsArray(items)
              /\ items.p = <<>>
              /\ Len(items.e) = Len(flat.p)
              /\ \A j \in 1..Len(flat.p) : items.e[j] = flat.p[j].x

\* items.0 and items.2 were unflattened into a two-element array.
C10_Witness ==
  /\ pc = "errors"
  /\ flat = SparseMap(<<0, 2>>)
  /\ Get(tree.d, ItemsPath) = Arr(<<IndexValue(0), IndexValue(2)>>)

(***************************************************************************)
(* Specification of the field array helpers of a mounted form              *)
(***************************************************************************)
MaxLen == 4
MaxOps == 3
InitLen == 3
MaxBeyond == 2

\* Schemas with an array field: of strings, of objects, and of strings next
\* to other fields (nested in an object, and at the top level).
ArraySchemas == {3, 5, 20, 21}

\* The path handed to getFieldArrayHelpers.
ArrayPath ==
  IF schemaId = 20 THEN <<"u", ".", "i">> ELSE SchemaInUse.shape[1].n

\* The array schema at that path.
ArrayField(id) ==
  IF id = 20 THEN Schemas[id].shape[1].s.shape[1].s ELSE Schemas[id].shape[1].s

\* The default values of the fields next to the array.
Siblings(id) ==
  IF id \in {20, 21}
  THEN <<Entry(Schemas[id].shape[2].n, Arr(<<Str("P"), Str("Q")>>)),
         Entry(<<"n">>, StrX)>>
  ELSE <<>>

\* The default values of a form whose array holds the list.
FormValue(id, list) ==
  IF id = 20
  THEN Obj(<<Entry(<<"u">>, Obj(<<Entry(<<"i">>, Arr(list))>>))>> \o Siblings(id))
  ELSE Obj(<<Entry(Schemas[id].shape[1].n, Arr(list))>> \o Siblings(id))

InitialNames == <<"A", "B", "C", "D">>
AddedNames == {"X"}

\* An element of the array field of the schema in use.
Element(id, name) ==
  IF ArrayField(id).items[1].type = "object"
  THEN Obj(<<Entry(<<"n">>, Str(name))>>)
  ELSE Str(name)

DefaultList(id, n) == [j \in 1..n |-> Element(id, InitialNames[j])]

ListInsert(l, i, x) == SubSeq(l, 1, i) \o <<x>> \o SubSeq(l, i + 1, Len(l))
ListRemove(l, i) == SubSeq(l, 1, i) \o SubSeq(l, i + 2, Len(l))
ListMove(l, from, to) == ListInsert(ListRemove(l, from), to, l[from + 1])

\* useState(() => flattenZodFormData(schema, defaultValues ?? {}))
InitArr ==
  /\ pc = "form"
  /\ schemaId \in ArraySchemas
  /\ \E n \in 0..InitLen :
       /\ elements = DefaultList(schemaId, n)
       /\ value = FormValue(schemaId, elements)
  /\ flattenedData = flattenZodFormData(Schemas[schemaId], value)
  /\ prevData = EmptyObj
  /\ lastOp = NoOp
  /\ opCount = 0
  /\ flat = EmptyObj
  /\ tree = Ok(Undef)
  /\ root = <<>>
  /\ AuxIdle
  /\ ParseIdle

\* A form is mounted; "beyond" once an add was given an index past the end.
Mounted == pc \in {"form", "beyond"}

\* getFieldArrayHelpers(path).add(value)
Add ==
  /\ Mounted /\ opCount < MaxOps /\ Len(elements) < MaxLen
  /\ \E name \in AddedNames :
       /\ flattenedData' = add(flattenedData, ArrayPath,
                               Element(schemaId, name), NoIndex)
       /\ elements' = Append(elements, Element(schemaId, name))
       /\ lastOp' = [op |-> "add", a |-> NoIndex, b |-> 0]
  /\ prevData' = flattenedData
  /\ opCount' = opCount + 1
  /\ UNCHANGED <<auxVars, pc, schemaId, value, flat, tree, root, parseVars>>

\* getFieldArrayHelpers(path).add(value, atIndex)
AddAt ==
  /\ Mounted /\ opCount < MaxOps /\ Len(elements) < MaxLen
  /\ \E name \in AddedNames, atIndex \in 0..Len(elements) :
       /\ flattenedData' = add(flattenedData, ArrayPath,
                               Element(schemaId, name), atIndex)
       /\ elements' = ListInsert(elements, atIndex, Element(schemaId, name))
       /\ lastOp' = [op |-> "add", a |-> atIndex, b |-> 0]
  /\ prevData' = flattenedData
  /\ opCount' = opCount + 1
  /\ UNCHANGED <<auxVars, pc, schemaId, value, flat, tree, root, parseVars>>

\* getFieldArrayHelpers(path).add(value, atIndex) with atIndex past the end:
\* the list gains the element at its end.
AddBeyond ==
  /\ Mounted /\ opCount < MaxOps /\ Len(elements) < MaxLen
  /\ \E name \in AddedNames,
        atIndex \in (Len(elements) + 1)..(Len(elements) + MaxBeyond) :
       /\ flattenedData' = add(flattenedData, ArrayPath,
                               Element(schemaId, name), atIndex)
       /\ elements' = Append(elements, Element(schemaId, name))
       /\ lastOp' = [op |-> "add", a |-> atIndex, b |-> 0]
  /\ prevData' = flattenedData
  /\ opCount' = opCount + 1
  /\ pc' = "beyond"
  /\ UNCHANGED <<auxVars, schemaId, value, flat, tree, root, parseVars>>

\* getFieldArrayHelpers(path).remove(index)
Remove ==
  /\ Mounted /\ opCount < MaxOps
  /\ \E index \in 0..(Len(elements) - 1) :
       /\ flattenedData' = remove(flattenedData, ArrayPath, index)
       /\ elements' = ListRemove(elements, index)
       /\ lastOp' = [op |-> "remove", a |-> index, b |-> 0]
  /\ prevData' = flattenedData
  /\ opCount' = opCount + 1
  /\ UNCHANGED <<auxVars, pc, schemaId, value, flat, tree, root, parseVars>>

\* getFieldArrayHelpers(path).move(fromIndex, toIndex)
Move ==
  /\ Mounted /\ opCount < MaxOps
  /\ \E fromIndex \in 0..(Len(elements) - 1), toIndex \in 0..(Len(elements) - 1) :
       /\ flattenedData' = move(flattenedData, ArrayPath, fromIndex, toIndex)
       /\ elements' = ListMove(elements, fromIndex, toIndex)
       /\ lastOp' = [op |-> "move", a |-> fromIndex, b |-> toIndex]
  /\ prevData' = flattenedData
  /\ opCount' = opCount + 1
  /\ UNCHANGED <<auxVars, pc, schemaId, value, flat, tree, root, parseVars>>

NextArr == Add \/ AddAt \/ AddBeyond \/ Remove \/ Move

SpecArr == InitArr /\ [][NextArr]_vars

(***************************************************************************)
(* Properties of the field array helpers                                   *)
(***************************************************************************)
\* The indices that occur under the array path of a flat map.
IndicesOf(data, path) ==
  {MatchIndex(path, data.p[j].n).index :
     j \in {k \in 1..Len(data.p) :
              StartsWith(data.p[k].n, path \o Dot)
              /\ MatchIndex(path, data.p[k].n).ok}}

\* The element stored at an index: the leaf, or the object of its fields.
ElementAt(data, path, index) ==
  IF HasProp(data, Dotted(path, NatToStr(index)))
  THEN Get(data, Dotted(path, NatToStr(index)))
  ELSE LET isField(e) == /\ MatchIndex(path, e.n).ok
                         /\ MatchIndex(path, e.n).index = index
                         /\ StartsWith(MatchIndex(path, e.n).suffix, Dot)
           fields == SelectSeq(data.p, isField)
       IN  Obj([j \in 1..Len(fields) |->
                  Entry(Tail(MatchIndex(path, fields[j].n).suffix), fields[j].x)])

RECURSIVE Ascending(_)
Ascending(S) ==
  IF S = {} THEN <<>>
  ELSE LET m == CHOOSE x \in S : \A y \in S : x <= y
       IN  <<m>> \o Ascending(S \ {m})

\* The element list read back from a flat map, in ascending index order.
ReadBack(data, path) ==
  LET order == Ascending(IndicesOf(data, path))
  IN  [j \in 1..Len(order) |-> ElementAt(data, path, order[j])]

\* C2: after any sequence of add(value), add(value, index), remove(index)
\* and move(from, to) with in-range indices, the element list read back from
\* the flat map equals the ordinary list the same operations produce.
C2_ArrayMutationSequence ==
  pc = "form" => ReadBack(flattenedData, ArrayPath) = elements

\* C3: a move applied to a flat map that holds the elements 0..n-1, with both
\* indices in range, keeps every index key, puts the moved element at the
\* target index and shifts each element between source and target by one.
C3_MoveSafety ==
  (/\ pc = "form" /\ lastOp.op = "move"
   /\ \E n \in 1..MaxLen :
        /\ IndicesOf(prevData, ArrayPath) = 0..(n - 1)
        /\ lastOp.a < n /\ lastOp.b < n)
    => LET before(k) == ElementAt(prevData, ArrayPath, k)
           after(k) == ElementAt(flattenedData, ArrayPath, k)
       IN  /\ IndicesOf(flattenedData, ArrayPath) = IndicesOf(prevData, ArrayPath)
           /\ after(lastOp.b) = before(lastOp.a)
           /\ \A k \in IndicesOf(prevData, ArrayPath) :
                /\ (lastOp.a < k /\ k <= lastOp.b) => after(k - 1) = before(k)
                /\ (lastOp.b <= k /\ k < lastOp.a) => after(k + 1) = before(k)
                /\ (k < lastOp.a /\ k < lastOp.b) => after(k) = before(k)
                /\ (k > lastOp.a /\ k > lastOp.b) => after(k) = before(k)

(***************************************************************************)
(* Specification of a form submission                                      *)
(***************************************************************************)
MaxFormEntries == 2
MaxIssues == 2

\* The keys submitted with each schema: declared leaves, and a key the
\* schema does not declare.
FormKeys(id) ==
  CASE id = 12 -> {<<"a">>, <<"a", ".", "b">>}
    [] id = 13 -> {<<"a">>, <<"i", ".", "1">>}
    [] id = 14 -> {<<"c", ".", "0">>, <<"q">>}
    [] id = 15 -> {<<"a", "2">>, <<"g">>}
    [] id = 17 -> {<<"k">>, <<"i", ".", "0">>}
    [] id = 9 -> {<<"d", ".", "t">>, <<"d", ".", "l">>}
    [] id = 19 -> {FormKey, <<"a">>}

RawValues == {"on", "yes", "7"}

\* The raw strings submitted with each schema.
RawsOf(id) ==
  CASE id = 17 -> {"", "7"}
    [] id = 9 -> {"g", "m"}
    [] id = 19 -> {"on", "yes"}
    [] id = 13 -> {"", " ", "7", "yes"}
    [] OTHER -> RawValues

ValidationMessages ==
  {"Invalid input: expected boolean, received string", "Required"}

\* The schema leaf a submitted key addresses, as parseFormData looks it up.
LeafOf(key) ==
  matchingSchema(flattenZodFormSchema(SchemaInUse), ReplaceDigitRuns(key))

\* The issues schema.safeParse may report on a form: at the submitted keys
\* that address a declared leaf, or at the root.
IssuesOf(entries) ==
  [path : {entries[i].key : i \in {j \in 1..Len(entries) : LeafOf(entries[j].key).found}}
            \cup {<<>>},
   message : ValidationMessages]

InitParse ==
  /\ pc = "submit"
  /\ schemaId \in FormSchemas
  /\ form \in SeqsUpTo([key : FormKeys(schemaId), raw : RawsOf(schemaId)], MaxFormEntries)
  /\ result = EmptyObj
  /\ coercionErrors = EmptyObj
  /\ validated = NotValidated
  /\ out = NotCalled
  /\ value = Undef
  /\ flat = EmptyObj
  /\ tree = Ok(Undef)
  /\ root = <<>>
  /\ AuxIdle
  /\ ArrIdle

\* The state a call of parseFormData with the outcome r ends in.
Completes(r) ==
  /\ result' = r.result
  /\ coercionErrors' = r.coercionErrors
  /\ validated' = r.validated
  /\ out' = r.out

\* parseFormData(form, {schema})
ParseFormData ==
  /\ pc = "submit"
  /\ \E issues \in SeqsUpTo(IssuesOf(form), MaxIssues) :
       Completes(parseFormData(form, SchemaInUse, issues))
  /\ pc' = "parsed"
  /\ UNCHANGED <<auxVars, schemaId, value, flat, tree, root, form, arrVars>>

NextParse == ParseFormData

SpecParse == InitParse /\ [][NextParse]_vars

(***************************************************************************)
(* Properties of a form submission                                         *)
(***************************************************************************)
\* C4: parseFormData never throws; it returns a success or a failure result.
C4_NeverThrows ==
  pc = "parsed" => ~out.threw

RECURSIVE Leaves(_)
\* The messages held at the leaves of a nested error tree.
Leaves(d) ==
  CASE d.k = "string" -> {d.v}
    [] d.k = "array" -> UNION {Leaves(d.e[i]) : i \in 1..Len(d.e)}
    [] d.k = "object" -> UNION {Leaves(d.p[i].x) : i \in 1..Len(d.p)}
    [] OTHER -> {}

\* The positions of the issues safeParse reported at a path.
IssuesAt(path) ==
  {i \in 1..Len(validated.issues) : validated.issues[i].path = path}

\* The validation message of a path: that of the last issue reported there.
ValidationMessage(path) ==
  validated.issues[CHOOSE i \in IssuesAt(path) : \A j \in IssuesAt(path) : j <= i].message

\* The paths with both a coercion failure and a validation failure.
BothFailedAt ==
  {path \in KeySet(coercionErrors) : validated.ran /\ IssuesAt(path) # {}}

\* C8: error precedence. When a path has both a coercion failure and a
\* validation failure, the call returns a failure whose flattened map holds
\* the validation message at that path, and the fields tree built from it
\* holds that message (at the field itself for a top-level path) and holds
\* the coercion message only if another path reports the same text.
C8_ErrorPrecedence ==
  (pc = "parsed" /\ ~out.threw)
    => \A path \in BothFailedAt :
         /\ ~out.success
         /\ Get(out.errors.flattened, path) = Str(ValidationMessage(path))
         /\ ValidationMessage(path) \in Leaves(out.errors.fields)
         /\ Len(Split(path)) = 1
              => Get(out.errors.fields, path) = Str(ValidationMessage(path))
         /\ Get(coercionErrors, path).v \in Leaves(out.errors.fields)
              => \E other \in KeySet(out.errors.flattened) \ {path} :
                   Get(out.errors.flattened, other) = Get(coercionErrors, path)

C8_Witness ==
  /\ pc = "parsed" /\ ~out.threw /\ ~out.success
  /\ \E path \in BothFailedAt :
       /\ Get(coercionErrors, path) = Str(BoolAsStringMessage)
       /\ Get(out.errors.flattened, path) = Str(ValidationMessage(path))
       /\ Get(out.errors.fields, path) = Str(ValidationMessage(path))

\* The submitted entries whose raw value cannot be coerced to the type of
\* the leaf the key addresses (a union leaf falls back to the raw string).
FailsWith(m, raw) ==
  /\ m.found
  /\ m.s.type \notin {"union", "discriminatedUnion"}
  /\ IF m.s.type = "number" THEN NumberIsNaN(raw)
     ELSE ~coerceFormData(m.s, Str(raw)).ok

FailsCoercion(i) == FailsWith(LeafOf(form[i].key), form[i].raw)

LastOccurrence(i) == \A j \in (i + 1)..Len(form) : form[j].key # form[i].key

\* C9: when a raw value cannot be coerced to its leaf's type, a message is
\* recorded at the key, the raw string stays as the key's value, every
\* other submitted key still gets a value, and the schema validation runs on
\* the assembled value: the call is not aborted.
C9_CoercionFailure ==
  pc = "parsed"
    => \A i \in 1..Len(form) :
         FailsCoercion(i)
           => /\ HasProp(coercionErrors, form[i].key)
              /\ LastOccurrence(i) => Get(result, form[i].key) = Str(form[i].raw)
              /\ \A j \in 1..Len(form) : HasProp(result, form[j].key)
              /\ validated.ran /\ ~out.threw
              /\ validated.input = unflattenZodFormData(result, <<>>).d

\* The flat map with its entries inserted in the order f.
Reordered(map, f) == Obj([j \in 1..Len(map.p) |-> map.p[f[j]]])

\* C11: the tree unflattenZodFormData builds does not depend on the
\* insertion order of the flat map's entries: every permutation of the same
\* entries unflattens to a deeply equal tree.
C11_InsertionOrderIndependent ==
  (pc = "data" /\ Len(flat.p) <= MaxEntries)
    => \A f \in Permutations(1..Len(flat.p)) :
         /\ unflattenZodFormData(Reordered(flat, f), <<>>).threw = tree.threw
         /\ DeepEqual(unflattenZodFormData(Reordered(flat, f), <<>>).d, tree.d)

\* C12: called with a root of one or more dot-separated segments,
\* unflattenZodFormData and unflattenZodFormErrors return, unwrapped, the
\* subtree that the unflattening of the whole map holds at that root.
C12_RootScoping ==
  (pc \in {"dataAt", "errorsAt"} /\ ~unflattenZodFormData(flat, <<>>).threw)
    => /\ ~tree.threw
       /\ DeepEqual(tree.d,
                    GetPath(unflattenZodFormData(flat, <<>>).d, Split(root)))

\* A key addresses a flattened-schema path: as many segments, each equal to
\* the schema segment unless that one is a placeholder.
SegmentsMatch(pattern, key) ==
  LET patternParts == Split(pattern)
      keyParts == Split(key)
  IN  /\ Len(patternParts) = Len(keyParts)
      /\ \A i \in 1..Len(patternParts) :
           patternParts[i] \in {<<"#">>, <<"*">>, keyParts[i]}

AddressedBy(key) ==
  {j \in 1..Len(flattenZodFormSchema(SchemaInUse)) :
     SegmentsMatch(flattenZodFormSchema(SchemaInUse)[j].n, key)}

\* C13: parseFormData matches a submitted key to a flattened-schema path
\* exactly when the key addresses it segment by segment, so every submitted
\* key that addresses a declared leaf is matched to that leaf's schema,
\* whatever characters its field names contain.
C13_KeyMatching ==
  pc = "parsed"
    => \A i \in 1..Len(form) :
         /\ LeafOf(form[i].key).found <=> AddressedBy(form[i].key) # {}
         /\ \A j \in AddressedBy(form[i].key) :
              LeafOf(form[i].key).s = flattenZodFormSchema(SchemaInUse)[j].s

(***************************************************************************)
(* Specification of the flattenZodFormSchema calls                         *)
(***************************************************************************)
MaxLazy == 4
MaxWraps == 1

RecursiveDefs ==
  [via : {"array", "record", "optional", "object"},
   leaf : {ZString, ZNumber, ZBoolean},
   wraps : 0..MaxWraps]

\* z.object({comment: ...}) over recursive comment schemas and over leaves
\* under nested lazy wrappers, optional or not.
LazySchemas ==
  LET comments == {ZLazySelf(def) : def \in RecursiveDefs}
                    \cup {Lazies(leaf, n) : leaf \in {ZString, ZNumber, ZBoolean},
                                            n \in 0..MaxLazy}
  IN  {ZObject(<<Field(CommentKey, c)>>) : c \in comments}
        \cup {ZObject(<<Field(CommentKey, ZOptional(c))>>) : c \in comments}

InitSchema ==
  /\ pc = "schema"
  /\ lazySchema \in LazySchemas
  /\ shape = <<>>
  /\ fieldTree = FieldObject(<<>>)
  /\ schemaId = 0
  /\ value = Undef
  /\ flat = EmptyObj
  /\ tree = Ok(Undef)
  /\ root = <<>>
  /\ ArrIdle
  /\ ParseIdle

\* flattenZodFormSchema(schema)
FlattenSchema ==
  /\ pc = "schema"
  /\ shape' = flattenZodFormSchema(lazySchema)
  /\ pc' = "shape"
  /\ UNCHANGED <<lazySchema, fieldTree, schemaId, value, flat, tree, root, arrVars,
                 parseVars>>

NextSchema == FlattenSchema

SpecSchema == InitSchema /\ [][NextSchema]_vars

\* The comment schema of the lazy test: replies is an array of comments.
CommentForm ==
  ZObject(<<Field(CommentKey,
                  ZLazySelf([via |-> "array", leaf |-> ZString, wraps |-> 0]))>>)

RECURSIVE PathsWithin(_, _, _)
\* The leaf paths of a schema that lie under at most `left` lazy wrappers.
PathsWithin(s, prefix, left) ==
  CASE s.type = "object" ->
         UNION {PathsWithin(s.shape[i].s, WithPrefix(prefix, s.shape[i].n), left) :
                  i \in 1..Len(s.shape)}
    [] s.type = "array" -> PathsWithin(s.items[1], prefix \o <<".", "#">>, left)
    [] s.type = "record" -> PathsWithin(s.items[1], prefix \o <<".", "*">>, left)
    [] s.type = "optional" -> PathsWithin(s.items[1], prefix, left)
    [] s.type = "lazy" ->
         IF left = 0 THEN {}
         ELSE PathsWithin(getter(s), prefix, left - 1)
    [] OTHER -> {prefix}

ShapeKeys == [i \in 1..Len(shape) |-> shape[i].n]

\* C14: flattenZodFormSchema terminates on self-referential lazy schemas and
\* expands at most three nested lazy wrappers: it registers the leaf paths
\* under at most three of them, and for a comment whose replies are an array
\* of comments exactly comment.text, comment.replies.#.text and
\* comment.replies.#.replies.#.text.
C14_LazyExpansion ==
  pc = "shape"
    => /\ {shape[i].n : i \in 1..Len(shape)} = PathsWithin(lazySchema, <<>>, 3)
       /\ lazySchema = CommentForm
            => ShapeKeys =
                 << JoinDots(<<CommentKey, TextKey>>),
                    JoinDots(<<CommentKey, RepliesKey, <<"#">>, TextKey>>),
                    JoinDots(<<CommentKey, RepliesKey, <<"#">>,
                               RepliesKey, <<"#">>, TextKey>>) >>

C14_Witness ==
  /\ pc = "shape"
  /\ lazySchema = CommentForm
  /\ Len(shape) = 3

\* The coercion parseFormData applies for a leaf schema that is not wrapped.
InnerCoercion(inner, raw) ==
  IF inner.type = "number"
  THEN IF ~NumberIsNaN(raw) THEN Parsed(NumberOf(raw))
       ELSE Failed(ExpectedNumberMessage)
  ELSE coerceFormData(inner, Str(raw))

CoercedAsInner(key, c) ==
  c.ok => Get(result, key) = c.v /\ ~HasProp(coercionErrors, key)

\* C15: a non-empty raw string submitted for an optional or nullable leaf is
\* coerced with the inner leaf's coercion: "30" for an optional number
\* arrives as the number 30.
C15_OptionalInnerCoercion ==
  pc = "parsed"
    => \A i \in 1..Len(form) :
         (/\ LeafOf(form[i].key).found
          /\ LeafOf(form[i].key).s.type \in {"optional", "nullable"}
          /\ form[i].raw # ""
          /\ LastOccurrence(i))
           => CoercedAsInner(form[i].key,
                             InnerCoercion(LeafOf(form[i].key).s.items[1],
                                           form[i].raw))

RECURSIVE Conforms(_, _)
\* The value is one the schema accepts.
Conforms(s, val) ==
  CASE s.type \in {"string", "number", "boolean", "date"} -> val.k = s.type
    [] s.type = "literal" -> val = s.values[1]
    [] s.type = "object" ->
         /\ val.k = "object"
         /\ \A i \in 1..Len(val.p) : HasField(s, val.p[i].n)
         /\ \A i \in 1..Len(s.shape) :
              IF HasProp(val, s.shape[i].n)
              THEN Conforms(s.shape[i].s, Get(val, s.shape[i].n))
              ELSE s.shape[i].s.type = "optional"
    [] s.type \in {"array", "tuple"} ->
         /\ val.k = "array"
         /\ s.type = "tuple" => Len(val.e) = Len(s.items)
         /\ \A i \in 1..Len(val.e) :
              Conforms(s.items[IF s.type = "tuple" THEN i ELSE 1], val.e[i])
    [] s.type = "record" ->
         /\ val.k = "object"
         /\ \A i \in 1..Len(val.p) : Conforms(s.items[1], val.p[i].x)
    [] s.type = "optional" -> IsUndefined(val) \/ Conforms(s.items[1], val)
    [] s.type = "nullable" -> val.k = "null" \/ Conforms(s.items[1], val)
    [] s.type = "discriminatedUnion" ->
         \E i \in 1..Len(s.items) : Conforms(s.items[i], val)
    [] OTHER -> FALSE

\* C16: for a value that conforms to the schema, convertFormDataToObject of
\* convertObjectToFormData of the value is deeply equal to the value (no leaf
\* of the values drawn is undefined).
C16_TransportRoundTrip ==
  (pc = "object" /\ Conforms(SchemaInUse, value))
    => ~tree.threw /\ DeepEqual(tree.d, value)

RECURSIVE FieldLeaves(_)
\* The leaves of a binding tree.
FieldLeaves(f) ==
  CASE f.kind = "leaf" -> {f}
    [] f.kind = "object" ->
         UNION {FieldLeaves(f.fields[i].x) : i \in 1..Len(f.fields)}
    [] OTHER -> UNION {FieldLeaves(f.items[i]) : i \in 1..Len(f.items)}

RECURSIVE HasUnion(_)
HasUnion(s) ==
  \/ s.type \in {"union", "discriminatedUnion"}
  \/ \E i \in 1..Len(s.shape) : HasUnion(s.shape[i].s)
  \/ \E i \in 1..Len(s.items) : HasUnion(s.items[i])

\* C17: for a schema without unions, the leaf names of the binding tree
\* getFieldProps builds over flattenZodFormData(schema, value) are the keys of
\* that flat map, and each leaf holds the flat map's value at its name.
C17_BindingTreeShape ==
  (pc = "fields" /\ ~HasUnion(SchemaInUse))
    => /\ {f.name : f \in FieldLeaves(fieldTree)} = KeySet(flat)
       /\ \A f \in FieldLeaves(fieldTree) : f.value = Get(flat, f.name)

\* The entries of a flat map at a field's path and below it.
Under(map, name) ==
  SelectSeq(map.p, LAMBDA e : e.n = name \/ StartsWith(e.n, name \o Dot))

IsContainer(s) ==
  unwrapSchema(s).type \in {"object", "array", "record", "tuple", "discriminatedUnion"}

\* C18: flattenZodFormData returns a flat map for a value of any shape, and
\* a value of the wrong shape at a position affects only the entries below
\* that position: the entries of every field of an object are those of the
\* field's own value, and a non-object where an object is expected gives no
\* entry.
C18_WrongShape ==
  (pc = "flat" /\ schemaId # 0)
    => /\ flat.k = "object"
       /\ (SchemaInUse.type = "object" /\ ~IsObjectLike(value)) => flat = EmptyObj
       /\ (SchemaInUse.type = "object" /\ IsObjectLike(value))
            => \A i \in 1..Len(SchemaInUse.shape) :
                 Under(flat, SchemaInUse.shape[i].n)
                   = flatten(EmptyObj, SchemaInUse.shape[i].s,
                             Get(value, SchemaInUse.shape[i].n),
                             SchemaInUse.shape[i].n).p

C18_Witness ==
  /\ pc = "flat"
  /\ schemaId # 0
  /\ SchemaInUse.type = "object"
  /\ IsPlainObject(value)
  /\ \E i \in 1..Len(SchemaInUse.shape) :
       /\ IsContainer(SchemaInUse.shape[i].s)
       /\ Get(value, SchemaInUse.shape[i].n).k \in {"string", "number", "null"}
       /\ Under(flat, SchemaInUse.shape[i].n) = <<>>
  /\ flat # EmptyObj

\* C19: the core algorithms leave their inputs unmodified: the value tree
\* and the schema never change, and the flat map passed to an unflatten call,
\* with every value object it holds, is the same after the call.
C19_Purity ==
  [][/\ pc # "value" => flat' = flat
     /\ value' = value
     /\ schemaId' = schemaId
     /\ lazySchema' = lazySchema]_vars

\* The message parseFormData reports at a key whose coercion failed with
\* the message m: the validator's when it reported one there.
ReportedAt(key, m) ==
  IF validated.ran /\ IssuesAt(key) # {} THEN Str(ValidationMessage(key))
  ELSE Str(m)

\* C20: for a boolean leaf, "true" and "on" are coerced to true and "false"
\* to false; every other raw string stays a string, never a boolean, and
\* makes parseFormData return a failure with a message at that key.
C20_BooleanCoercion ==
  pc = "parsed"
    => \A i \in 1..Len(form) :
         (LeafOf(form[i].key).found /\ LeafOf(form[i].key).s.type = "boolean")
           => IF form[i].raw \in {"true", "false", "on"}
              THEN LastOccurrence(i)
                     => Get(result, form[i].key)
                          = Bool(IF form[i].raw = "false" THEN "false" ELSE "true")
              ELSE /\ LastOccurrence(i)
                        => Get(result, form[i].key) = Str(form[i].raw)
                   /\ ~out.threw
                   /\ ~out.success
                   /\ Get(out.errors.flattened, form[i].key)
                        = ReportedAt(form[i].key, BoolAsStringMessage)

\* The submitted entries that give an empty string to a nullable leaf.
EmptyForNullable(i) ==
  /\ form[i].raw = ""
  /\ LeafOf(form[i].key).found
  /\ \/ LeafOf(form[i].key).s.type = "nullable"
     \/ /\ LeafOf(form[i].key).s.type = "optional"
        /\ LeafOf(form[i].key).s.items[1].type = "nullable"

C22_SuccessOnlyWhenValid ==
  (pc = "parsed" /\ ~out.threw /\ out.success)
    => /\ validated.ran
       /\ validated.issues = <<>>
       /\ Len(coercionErrors.p) = 0

\* C23: remove(i) applied to a flat map that holds the elements 0..n-1, in
\* any state earlier helper calls lead to, leaves the elements 0..n-2: every
\* element below i stays where it was, every element above i moves down by
\* one, and the element i is gone.
C23_RemoveShifts ==
  (/\ pc = "form" /\ lastOp.op = "remove"
   /\ \E n \in 1..MaxLen :
        /\ IndicesOf(prevData, ArrayPath) = 0..(n - 1)
        /\ lastOp.a < n)
    => LET before(k) == ElementAt(prevData, ArrayPath, k)
           after(k) == ElementAt(flattenedData, ArrayPath, k)
       IN  /\ IndicesOf(flattenedData, ArrayPath)
                = IndicesOf(prevData, ArrayPath)
                    \ {Cardinality(IndicesOf(prevData, ArrayPath)) - 1}
           /\ \A k \in IndicesOf(prevData, ArrayPath) :
                /\ k < lastOp.a => after(k) = before(k)
                /\ k > lastOp.a => after(k - 1) = before(k)

\* The names of the fields getFieldProps returns for an array of leaves.
FieldNamesOf(data, path) ==
  LET items == getFieldProps(ZArray(ZString), path, data).items
  IN  [k \in 1..Len(items) |-> items[k].name]

\* C24: after any sequence of add, remove and move on an array path whose
\* indices started as 0..n-1, add with an index past the end included, the
\* indices present under the path are 0..m-1 for the m elements present,
\* and the k-th field returned for an array of leaves is named path.k.
C24_IndexDensity ==
  Mounted
    => /\ IndicesOf(flattenedData, ArrayPath)
            = 0..(Cardinality(IndicesOf(flattenedData, ArrayPath)) - 1)
       /\ ArrayField(schemaId).items[1].type = "string"
            => \A k \in 1..Len(FieldNamesOf(flattenedData, ArrayPath)) :
                 FieldNamesOf(flattenedData, ArrayPath)[k]
                   = Dotted(ArrayPath, NatToStr(k - 1))

\* C25: in a failure payload every message of errors.flattened, other than
\* those of the form and global slots, is found in errors.fields at the
\* position its dotted path names.
C25_FieldsMatchFlattened ==
  (pc = "parsed" /\ ~out.threw /\ ~out.success)
    => \A path \in KeySet(out.errors.flattened) \ {FormKey, GlobalKey} :
         GetPath(out.errors.fields, Split(path))
           = Get(out.errors.flattened, path)

LeafTypes == {"string", "number", "boolean", "date", "literal"}

\* C26: at every leaf field of an object schema flattenZodFormData records,
\* at the field's path, exactly the value supplied for the field, undefined
\* when none was supplied.
C26_LeafVerbatim ==
  (/\ pc = "flat" /\ schemaId # 0
   /\ SchemaInUse.type = "object" /\ IsPlainObject(value))
    => \A i \in 1..Len(SchemaInUse.shape) :
         SchemaInUse.shape[i].s.type \in LeafTypes
           => /\ HasProp(flat, SchemaInUse.shape[i].n)
              /\ Get(flat, SchemaInUse.shape[i].n)
                   = Get(value, SchemaInUse.shape[i].n)

\* The discriminator paths of the schema in use and the tags declared there.
DiscriminatorPath == <<"d", ".", "t">>
DeclaredTags == {LitG.v, LitM.v}

\* C27: the entry flattenZodFormSchema keeps at the discriminator path of a
\* discriminated union is the generic string leaf, so a submitted
\* discriminator that equals the tag of any alternative passes coercion.
C27_DiscriminatorLeaf ==
  (pc = "parsed" /\ schemaId = 9)
    => /\ LeafOf(DiscriminatorPath).found
       /\ LeafOf(DiscriminatorPath).s = ZString
       /\ \A i \in 1..Len(form) :
            (form[i].key = DiscriminatorPath /\ form[i].raw \in DeclaredTags)
              => /\ ~FailsCoercion(i)
                 /\ (\A j \in 1..Len(form) : form[j].key = DiscriminatorPath
                                              => form[j].raw \in DeclaredTags)
                      => ~HasProp(coercionErrors, DiscriminatorPath)

\* C28: the form and global slots of a failure payload are never filled
\* from a schema path: a message for a declared field named form or global
\* is found under errors.fields, and the slot of that name stays empty.
C28_MetaSlots ==
  (pc = "parsed" /\ ~out.threw /\ ~out.success)
    => \A slot \in {FormKey, GlobalKey} :
         (HasField(SchemaInUse, slot) /\ HasProp(out.errors.flattened, slot))
           => /\ Get(out.errors.fields, slot) = Get(out.errors.flattened, slot)
              /\ (IF slot = FormKey THEN out.errors.form
                   ELSE out.errors.global) = Undef

\* A raw string that denotes a number: /^-?\d*\.?\d+$/.
DenotesNumber(raw) == MatchesNumAsString(Chars(raw))

\* C29: for a number leaf a raw string becomes a number only when it denotes
\* one; for any other raw string, the empty and the blank one included, the
\* failure "Expected number, received string" is recorded at the key and
\* the raw string is kept as the key's value.
C29_NumberCoercion ==
  pc = "parsed"
    => \A i \in 1..Len(form) :
         (/\ LeafOf(form[i].key).found
          /\ LeafOf(form[i].key).s.type = "number"
          /\ LastOccurrence(i))
           => IF DenotesNumber(form[i].raw)
              THEN Get(result, form[i].key) = NumberOf(form[i].raw)
              ELSE /\ Get(coercionErrors, form[i].key) = Str(ExpectedNumberMessage)
                   /\ Get(result, form[i].key) = Str(form[i].raw)

\* The keys of the array at a path: path.<index> and path.<index>.<suffix>.
ElementKey(path, key) ==
  LET run == DigitRun(key, Len(path) + 2)
  IN  /\ StartsWith(key, path \o Dot)
      /\ run > 0
      /\ (Len(key) = Len(path) + 1 + run \/ key[Len(path) + 2 + run] = ".")

\* C30: a call of add, remove or move on the array at a path changes only
\* keys path.<index> and path.<index>.<suffix>: every other key of the flat
\* map keeps its value, and no other key appears.
C30_HelperFrame ==
  (Mounted /\ lastOp.op # "none")
    => /\ \A j \in 1..Len(prevData.p) :
            ~ElementKey(ArrayPath, prevData.p[j].n)
              => /\ HasProp(flattenedData, prevData.p[j].n)
                 /\ Get(flattenedData, prevData.p[j].n) = prevData.p[j].x
       /\ \A j \in 1..Len(flattenedData.p) :
            ~ElementKey(ArrayPath, flattenedData.p[j].n)
              => HasProp(prevData, flattenedData.p[j].n)

====
